---- MODULE Spec2Model ----
(***************************************************************************)
(* A model of the rust-tree-walk interpreter: Value (value.rs),            *)
(* Environment (environment.rs), Parser (parser.rs) and Interpreter        *)
(* (interpreter.rs).  Interpreter::run is one action: it parses the token  *)
(* stream of a source text and executes the statements on the one          *)
(* Interpreter the process holds.                                          *)
(*                                                                         *)
(* Numbers are the integer-valued f64s; text is a sequence of one-         *)
(* character strings, so that parsing and formatting a number are          *)
(* computed and not assumed.                                               *)
(***************************************************************************)
EXTENDS Integers, Sequences, FiniteSets, TLC

(***************************************************************************)
(* Bounds of the model.                                                    *)
(***************************************************************************)
\* calls of run on one Interpreter
MaxRuns == 2
\* nested evaluate_expression / evaluate_statement calls the native stack holds
MaxStack == 12
\* iterations of one while loop that are followed
MaxIter == 4

\* the longest token stream of the streams enumerated for the parser
MaxLen == 3

(***************************************************************************)
(* Result<T, Error>, and the two ways a call does not return: a panic      *)
(* (unreachable!(), unwrap on None) or a native stack overflow, both of    *)
(* which end the process ("Abort"), and a loop that is still running at    *)
(* MaxIter ("Running").                                                    *)
(***************************************************************************)
Ok(v) == [tag |-> "Ok", val |-> v]

Err(e) == [tag |-> "Err", val |-> e]

Abort(why) == [tag |-> "Abort", val |-> why]

Running == [tag |-> "Running", val |-> "loop"]

Returned(r) == r.tag \in {"Ok", "Err"}

Unit == Ok("()")

\* the element of a singleton: Only({ e(x) : x \in {v} }) is e with x bound
\* to v, a `let x = v;` that evaluates v once
Only(S) == CHOOSE x \in S : TRUE

\* error.rs.  An Option is the empty sequence (None) or a sequence of one
\* element (Some); a formatted message is its text and what was formatted in.
RuntimeError(message) == [kind |-> "RuntimeError", token |-> <<>>, message |-> message]

ParserError(token, message) == [kind |-> "ParserError", token |-> token, message |-> message]

ScannerError(message) == [kind |-> "ScannerError", token |-> <<>>, message |-> message]

NoError == [kind |-> "None", token |-> <<>>, message |-> <<>>]

(***************************************************************************)
(* value.rs                                                                *)
(***************************************************************************)
True == [t |-> "True", s |-> <<>>, n |-> 0]

False == [t |-> "False", s |-> <<>>, n |-> 0]

Null == [t |-> "Null", s |-> <<>>, n |-> 0]

String(str) == [t |-> "String", s |-> str, n |-> 0]

Number(number) == [t |-> "Number", s |-> <<>>, n |-> number]

Digits == <<"0", "1", "2", "3", "4", "5", "6", "7", "8", "9">>

IsDigit(c) == \E i \in 1..10 : Digits[i] = c

DigitValue(c) == (CHOOSE i \in 1..10 : Digits[i] = c) - 1

RECURSIVE DecimalValue(_)
DecimalValue(str) ==
    IF str = <<>> THEN 0
    ELSE 10 * DecimalValue(SubSeq(str, 1, Len(str) - 1)) + DigitValue(str[Len(str)])

\* str.parse::<f64>() over the alphabet of digits, signs and letters other
\* than those of "inf", "nan" and the exponent: an optional sign and at
\* least one digit.
parse_number(str) ==
    LET signed == Len(str) > 0 /\ str[1] \in {"-", "+"}
        body == IF signed THEN Tail(str) ELSE str
    IN  IF Len(body) > 0 /\ \A i \in 1..Len(body) : IsDigit(body[i])
        THEN Ok(IF signed /\ str[1] = "-" THEN 0 - DecimalValue(body) ELSE DecimalValue(body))
        ELSE Err(<<"invalid float literal">>)

RECURSIVE DecimalDigits(_)
DecimalDigits(number) ==
    IF number < 10 THEN <<Digits[number + 1]>>
    ELSE DecimalDigits(number \div 10) \o <<Digits[(number % 10) + 1]>>

\* format!("{}", number) of an integer-valued f64
format_number(number) ==
    IF number < 0 THEN <<"-">> \o DecimalDigits(0 - number) ELSE DecimalDigits(number)

as_number(self) ==
    CASE self.t = "True" -> Ok(Number(1))
      [] self.t \in {"False", "Null"} -> Ok(Number(0))
      [] self.t = "Number" -> Ok(Number(self.n))
      [] self.t = "String" ->
            LET parsed == parse_number(self.s)
            IN  IF parsed.tag = "Ok" THEN Ok(Number(parsed.val))
                ELSE Err(RuntimeError(parsed.val))

as_boolean(self) ==
    CASE self.t \in {"True", "False"} -> self
      [] self.t = "Null" -> False
      [] self.t = "Number" -> IF self.n = 0 THEN False ELSE True
      [] self.t = "String" -> IF self.s = <<>> THEN False ELSE True

as_string(self) ==
    CASE self.t = "True" -> String(<<"t", "r", "u", "e">>)
      [] self.t = "False" -> String(<<"f", "a", "l", "s", "e">>)
      [] self.t = "Null" -> String(<<>>)
      [] self.t = "Number" -> String(format_number(self.n))
      [] self.t = "String" -> String(self.s)

is_null(self) == self.t = "Null"

is_true(self) == self.t = "True"

is_false(self) == self.t = "False"

\* impl fmt::Display for Value
display(self) ==
    CASE self.t = "True" -> <<"t", "r", "u", "e">>
      [] self.t = "False" -> <<"f", "a", "l", "s", "e">>
      [] self.t = "Null" -> <<"n", "u", "l", "l">>
      [] self.t = "String" -> self.s
      [] self.t = "Number" -> format_number(self.n)

\* self.as_number()? and rhs.as_number()?, in this order, as subtract,
\* mutiply, division, add and the comparisons take them
as_numbers(self, rhs) ==
    LET l == as_number(self)
        r == as_number(rhs)
    IN  IF l.tag = "Err" THEN l
        ELSE IF r.tag = "Err" THEN r
        ELSE Ok([lhs |-> l.val.n, rhs |-> r.val.n])

subtract(self, rhs) ==
    LET c == as_numbers(self, rhs)
    IN  IF c.tag = "Err" THEN c ELSE Ok(Number(c.val.lhs - c.val.rhs))

\* lhs / rhs of two f64s; the programs of the model divide only where the
\* quotient is an integer
division(self, rhs) ==
    LET c == as_numbers(self, rhs)
    IN  IF c.tag = "Err" THEN c
        ELSE IF c.val.rhs # 0 /\ c.val.lhs % c.val.rhs = 0
             THEN Ok(Number(c.val.lhs \div c.val.rhs))
             ELSE Ok([t |-> "Number", s |-> <<"/">>, n |-> c.val.lhs])

mutiply(self, rhs) ==
    LET c == as_numbers(self, rhs)
    IN  IF c.tag = "Err" THEN c ELSE Ok(Number(c.val.lhs * c.val.rhs))

\* an addition that concatenates when either operand is a String
add_symmetric(self, rhs) ==
    IF self.t = "String" \/ rhs.t = "String"
    THEN Ok(String(as_string(self).s \o as_string(rhs).s))
    ELSE LET c == as_numbers(self, rhs)
         IN  IF c.tag = "Err" THEN c ELSE Ok(Number(c.val.lhs + c.val.rhs))

add(self, rhs) ==
    IF self.t = "String" THEN Ok(String(self.s \o as_string(rhs).s))
    ELSE LET c == as_numbers(self, rhs)
         IN  IF c.tag = "Err" THEN c ELSE Ok(Number(c.val.lhs + c.val.rhs))

greater(self, rhs) ==
    LET c == as_numbers(self, rhs)
    IN  IF c.tag = "Err" THEN c
        ELSE IF c.val.lhs > c.val.rhs THEN Ok(True) ELSE Ok(False)

greater_equal(self, rhs) ==
    LET c == as_numbers(self, rhs)
    IN  IF c.tag = "Err" THEN c
        ELSE IF c.val.lhs >= c.val.rhs THEN Ok(True) ELSE Ok(False)

less(self, rhs) ==
    LET c == as_numbers(self, rhs)
    IN  IF c.tag = "Err" THEN c
        ELSE IF c.val.lhs < c.val.rhs THEN Ok(True) ELSE Ok(False)

less_equal(self, rhs) ==
    LET c == as_numbers(self, rhs)
    IN  IF c.tag = "Err" THEN c
        ELSE IF c.val.lhs <= c.val.rhs THEN Ok(True) ELSE Ok(False)

equal(self, rhs) ==
    CASE self.t = "True" -> IF is_true(rhs) THEN Ok(True) ELSE Ok(False)
      [] self.t = "False" -> IF is_false(rhs) THEN Ok(True) ELSE Ok(False)
      [] self.t = "Null" -> IF is_null(rhs) THEN Ok(True) ELSE Ok(False)
      [] self.t = "Number" ->
            LET r == as_number(rhs)
            IN  IF r.tag = "Err" THEN r
                ELSE IF self.n = r.val.n THEN Ok(True) ELSE Ok(False)
      [] self.t = "String" ->
            IF self.s = as_string(rhs).s THEN Ok(True) ELSE Ok(False)

\* match self.equal(rhs)? { True => Ok(False), False => Ok(False), _ => unreachable!() }
not_equal(self, rhs) ==
    LET e == equal(self, rhs)
    IN  IF e.tag = "Err" THEN e
        ELSE CASE e.val = True -> Ok(False)
               [] e.val = False -> Ok(False)
               [] OTHER -> Abort("unreachable")

(***************************************************************************)
(* environment.rs: the chain of links, the current link first and the      *)
(* root last; a link maps the names it defines to their values.  None is   *)
(* the empty chain.                                                        *)
(***************************************************************************)
\* Environment::new(enclosing)
new(enclosing) == <<<<>>>> \o enclosing

\* define as a bug would have it: a name an enclosing link defines is
\* overwritten there
define_overwrites_outer(env, name, value) ==
    IF \E i \in 1..Len(env) : name \in DOMAIN env[i]
    THEN LET i == CHOOSE k \in 1..Len(env) :
                    /\ name \in DOMAIN env[k]
                    /\ \A j \in 1..(k - 1) : name \notin DOMAIN env[j]
         IN  [env EXCEPT ![i] = (name :> value) @@ env[i]]
    ELSE [env EXCEPT ![1] = (name :> value) @@ env[1]]

define(env, name, value) == [env EXCEPT ![1] = (name :> value) @@ env[1]]

RECURSIVE get(_, _)
get(env, name) ==
    IF name \notin DOMAIN env[1] /\ Len(env) > 1 THEN get(Tail(env), name)
    ELSE IF name \in DOMAIN env[1] THEN Ok(env[1][name])
    ELSE Err(RuntimeError(<<"undefined variable", name>>))

\* assign as a bug would have it: the value goes into the current link
assign_current_link(env, name, value) ==
    IF \E i \in 1..Len(env) : name \in DOMAIN env[i]
    THEN [env |-> [env EXCEPT ![1] = (name :> value) @@ env[1]], res |-> Unit]
    ELSE [env |-> env, res |-> Err(RuntimeError(<<"undefined variable", name>>))]

\* assign as a bug would have it: a name no link defines is created in the
\* root link
assign_creates_global(env, name, value) ==
    LET i == IF \E k \in 1..Len(env) : name \in DOMAIN env[k]
             THEN CHOOSE k \in 1..Len(env) :
                    /\ name \in DOMAIN env[k]
                    /\ \A j \in 1..(k - 1) : name \notin DOMAIN env[j]
             ELSE Len(env)
    IN  [env |-> [env EXCEPT ![i] = (name :> value) @@ env[i]], res |-> Unit]

\* the chain after the call, and the call's Result
RECURSIVE assign(_, _, _)
assign(env, name, value) ==
    IF name \in DOMAIN env[1]
    THEN [env |-> [env EXCEPT ![1] = (name :> value) @@ env[1]], res |-> Unit]
    ELSE IF Len(env) > 1
         THEN LET outer == assign(Tail(env), name, value)
              IN  [env |-> <<env[1]>> \o outer.env, res |-> outer.res]
         ELSE [env |-> env, res |-> Err(RuntimeError(<<"undefined variable", name>>))]

enclosing(env) == Tail(env)

\* the names each link of a chain defines
Shape(env) == [i \in 1..Len(env) |-> DOMAIN env[i]]

(***************************************************************************)
(* ast.rs: the nodes.  An operator is the token the parser took.           *)
(***************************************************************************)
Binary(left, operator, right) ==
    [kind |-> "Binary", left |-> left, operator |-> operator, right |-> right]

Grouping(expression) == [kind |-> "Grouping", expression |-> expression]

Literal(value) == [kind |-> "Literal", value |-> value]

Unary(operator, right) == [kind |-> "Unary", operator |-> operator, right |-> right]

Ternary(operator, first, second, third) ==
    [kind |-> "Ternary", operator |-> operator, first |-> first, second |-> second,
     third |-> third]

Variable(name) == [kind |-> "Variable", name |-> name]

Assign(name, value) == [kind |-> "Assign", name |-> name, value |-> value]

Logical(left, operator, right) ==
    [kind |-> "Logical", left |-> left, operator |-> operator, right |-> right]

ExpressionStatement(expression) == [kind |-> "ExpressionStatement", expression |-> expression]

PrintStatement(expression) == [kind |-> "Print", expression |-> expression]

Var(name, right) == [kind |-> "Var", name |-> name, right |-> right]

Block(statements) == [kind |-> "Block", statements |-> statements]

\* else_branch is <<>> (None) or <<statement>>
If(condition, then_branch, else_branch) ==
    [kind |-> "If", condition |-> condition, then_branch |-> then_branch,
     else_branch |-> else_branch]

While(condition, body) == [kind |-> "While", condition |-> condition, body |-> body]

(***************************************************************************)
(* interpreter.rs.  st is the Interpreter (environment, stack, error)      *)
(* with the lines written to standard output and, as history, what each    *)
(* visit_block found on entry and left on return.  Every method yields     *)
(* the Interpreter after it and its Result; d counts the nested            *)
(* evaluate_* calls on the native stack.                                   *)
(***************************************************************************)
Interpreter_new ==
    [environment |-> new(<<>>), stack |-> <<>>, error |-> NoError,
     stdout |-> <<>>, blocks |-> {}]

pop_from_stack(st) ==
    IF st.stack = <<>>
    THEN [st |-> st, res |-> Err(RuntimeError(<<"Expect value being in the stack">>))]
    ELSE [st |-> [st EXCEPT !.stack = SubSeq(st.stack, 1, Len(st.stack) - 1)],
          res |-> Ok(st.stack[Len(st.stack)])]

push_to_stack(st, value) == [st EXCEPT !.stack = Append(st.stack, value)]

set_error(st, error) == [st EXCEPT !.error = error]

\* a handle_error that returns the error and leaves it in the slot
handle_error_keeps_error(st) ==
    IF st.error.kind # "None"
    THEN [st |-> st, res |-> Err(st.error)]
    ELSE [st |-> st, res |-> Unit]

handle_error(st) ==
    IF st.error.kind # "None"
    THEN [st |-> [st EXCEPT !.error = NoError], res |-> Err(st.error)]
    ELSE [st |-> st, res |-> Unit]

\* match result { Ok(value) => self.push_to_stack(value), Err(error) => self.error = Some(error) }
push_or_set_error(r) ==
    CASE r.res.tag = "Ok" -> [st |-> push_to_stack(r.st, r.res.val), res |-> Unit]
      [] r.res.tag = "Err" -> [st |-> set_error(r.st, r.res.val), res |-> Unit]
      [] OTHER -> r

RECURSIVE evaluate_statement(_, _, _)
RECURSIVE evaluate_expression(_, _, _)
RECURSIVE accept_expression(_, _, _)
RECURSIVE accept_statement(_, _, _)
RECURSIVE evaluate_binary(_, _, _)
RECURSIVE evaluate_unary(_, _, _)
RECURSIVE evaluate_ternary(_, _, _)
RECURSIVE visit_grouping(_, _, _)
RECURSIVE visit_assign(_, _, _)
RECURSIVE visit_logical(_, _, _)
RECURSIVE visit_expression_statement(_, _, _)
RECURSIVE visit_print(_, _, _)
RECURSIVE visit_var(_, _, _)
RECURSIVE block_statements(_, _, _)
RECURSIVE visit_block(_, _, _)
RECURSIVE visit_if(_, _, _)
RECURSIVE while_loop(_, _, _, _)

\* visit_logical as a bug would have it: the right operand is always evaluated
visit_logical_no_short_circuit(expression, st, d) ==
    Only({ CASE result.res.tag = "Err" ->
                    [st |-> set_error(result.st, result.res.val), res |-> Unit]
             [] result.res.tag = "Ok" ->
                    push_or_set_error(evaluate_expression(expression.right, result.st, d))
             [] OTHER -> result
         : result \in {evaluate_expression(expression.left, st, d)} })

\* visit_logical as a bug would have it: a short-circuit yields the boolean
\* of the left operand
visit_logical_yields_boolean(expression, st, d) ==
    Only({ CASE result.res.tag = "Err" ->
                    [st |-> set_error(result.st, result.res.val), res |-> Unit]
             [] result.res.tag = "Ok" ->
                    LET left_as_bool == as_boolean(result.res.val)
                        operator == expression.operator.type
                    IN  IF \/ operator = "Or" /\ is_true(left_as_bool)
                           \/ operator = "And" /\ is_false(left_as_bool)
                        THEN [st |-> push_to_stack(result.st, left_as_bool), res |-> Unit]
                        ELSE push_or_set_error(
                                evaluate_expression(expression.right, result.st, d))
             [] OTHER -> result
         : result \in {evaluate_expression(expression.left, st, d)} })

\* visit_block as a bug would have it: a failed statement returns at once,
\* the block's link still current
visit_block_returns_on_error(statement, st, d) ==
    Only({ IF ~Returned(r.res) THEN r
           ELSE LET restored == IF r.res.val.kind # "None" THEN r.st.environment
                                ELSE enclosing(r.st.environment)
                IN  [st |-> [r.st EXCEPT
                               !.environment = restored,
                               !.error = r.res.val,
                               !.blocks = @ \cup {[entry |-> Shape(st.environment),
                                                   exit |-> Shape(restored),
                                                   failed |-> r.res.val.kind # "None"]}],
                     res |-> Unit]
         : r \in {block_statements(statement.statements,
                                   [st EXCEPT !.environment = new(st.environment)], d)} })

evaluate_statement(statement, st, d) ==
    IF d >= MaxStack THEN [st |-> st, res |-> Abort("stack overflow")]
    ELSE Only({ IF ~Returned(a.res) THEN a ELSE handle_error(a.st)
              : a \in {accept_statement(statement, st, d + 1)} })

evaluate_expression(expression, st, d) ==
    IF d >= MaxStack THEN [st |-> st, res |-> Abort("stack overflow")]
    ELSE Only({ IF ~Returned(a.res) THEN a
                ELSE LET h == handle_error(a.st)
                     IN  IF h.res.tag = "Err" THEN h ELSE pop_from_stack(h.st)
              : a \in {accept_expression(expression, st, d + 1)} })

\* the operands are evaluated left first; the right one only if the left
\* one yielded a value
evaluate_binary(expression, st, d) ==
    Only({ IF l.res.tag # "Ok" THEN l
           ELSE Only({ IF r.res.tag # "Ok" THEN r
                       ELSE LET left == l.res.val
                                right == r.res.val
                                operator == expression.operator.type
                            IN  [st |-> r.st,
                                 res |-> CASE operator = "Minus" -> subtract(left, right)
                                           [] operator = "Slash" -> division(left, right)
                                           [] operator = "Star" -> mutiply(left, right)
                                           [] operator = "Plus" -> add(left, right)
                                           [] operator = "Greater" -> greater(left, right)
                                           [] operator = "GreaterEqual" -> greater_equal(left, right)
                                           [] operator = "Less" -> less(left, right)
                                           [] operator = "LessEqual" -> less_equal(left, right)
                                           [] operator = "EqualEqual" -> equal(left, right)
                                           [] operator = "BangEqual" -> not_equal(left, right)
                                           [] OTHER -> Abort("unreachable")]
                     : r \in {evaluate_expression(expression.right, l.st, d)} })
         : l \in {evaluate_expression(expression.left, st, d)} })

\* let right = self.evaluate_expression(expression)?; with expression the Unary itself
evaluate_unary(expression, st, d) ==
    Only({ IF r.res.tag # "Ok" THEN r
           ELSE LET right == r.res.val
                    operator == expression.operator.type
                IN  [st |-> r.st,
                     res |-> CASE operator = "Minus" ->
                                    LET number == as_number(right)
                                    IN  IF number.tag = "Err" THEN number
                                        ELSE Ok(Number(0 - number.val.n))
                               [] operator = "Bang" ->
                                    IF as_boolean(right) = True THEN Ok(False) ELSE Ok(True)
                               [] OTHER -> Abort("unreachable")]
         : r \in {evaluate_expression(expression, st, d)} })

\* a ternary that evaluates both branches and yields the selected one
evaluate_ternary_both_branches(expression, st, d) ==
    IF expression.operator.type # "Query" THEN [st |-> st, res |-> Abort("unreachable")]
    ELSE Only({ IF condition.res.tag # "Ok" THEN condition
                ELSE Only({ IF second.res.tag # "Ok" THEN second
                            ELSE Only({ IF third.res.tag # "Ok" THEN third
                                        ELSE IF is_true(as_boolean(condition.res.val))
                                             THEN [st |-> third.st, res |-> second.res]
                                             ELSE third
                                      : third \in {evaluate_expression(expression.third,
                                                                       second.st, d)} })
                          : second \in {evaluate_expression(expression.second,
                                                            condition.st, d)} })
              : condition \in {evaluate_expression(expression.first, st, d)} })

evaluate_ternary(expression, st, d) ==
    IF expression.operator.type # "Query" THEN [st |-> st, res |-> Abort("unreachable")]
    ELSE Only({ IF condition.res.tag # "Ok" THEN condition
                ELSE IF is_true(as_boolean(condition.res.val))
                     THEN evaluate_expression(expression.second, condition.st, d)
                     ELSE evaluate_expression(expression.third, condition.st, d)
              : condition \in {evaluate_expression(expression.first, st, d)} })

visit_binary(expression, st, d) == push_or_set_error(evaluate_binary(expression, st, d))

\* let result = self.evaluate_expression(expression); with expression the Grouping itself
visit_grouping(expression, st, d) == push_or_set_error(evaluate_expression(expression, st, d))

visit_literal(expression, st, d) == [st |-> push_to_stack(st, expression.value), res |-> Unit]

visit_unary(expression, st, d) == push_or_set_error(evaluate_unary(expression, st, d))

visit_ternary(expression, st, d) == push_or_set_error(evaluate_ternary(expression, st, d))

visit_variable(expression, st, d) ==
    push_or_set_error([st |-> st, res |-> get(st.environment, expression.name)])

visit_assign(expression, st, d) ==
    Only({ CASE result.res.tag = "Err" ->
                    [st |-> set_error(result.st, result.res.val), res |-> Unit]
             [] result.res.tag = "Ok" ->
                    LET value == result.res.val
                        assigned == assign(result.st.environment, expression.name, value)
                        st1 == [result.st EXCEPT !.environment = assigned.env]
                        st2 == IF assigned.res.tag = "Err"
                               THEN set_error(st1, assigned.res.val) ELSE st1
                    IN  [st |-> push_to_stack(st2, value), res |-> Unit]
             [] OTHER -> result
         : result \in {evaluate_expression(expression.value, st, d)} })

visit_logical(expression, st, d) ==
    Only({ CASE result.res.tag = "Err" ->
                    [st |-> set_error(result.st, result.res.val), res |-> Unit]
             [] result.res.tag = "Ok" ->
                    LET left == result.res.val
                        left_as_bool == as_boolean(left)
                        operator == expression.operator.type
                    IN  CASE operator = "Or" /\ is_true(left_as_bool) ->
                                [st |-> push_to_stack(result.st, left), res |-> Unit]
                          [] operator = "And" /\ is_false(left_as_bool) ->
                                [st |-> push_to_stack(result.st, left), res |-> Unit]
                          [] operator \notin {"Or", "And"} ->
                                [st |-> result.st, res |-> Abort("unreachable")]
                          [] OTHER ->
                                push_or_set_error(
                                    evaluate_expression(expression.right, result.st, d))
             [] OTHER -> result
         : result \in {evaluate_expression(expression.left, st, d)} })

accept_expression(expression, st, d) ==
    CASE expression.kind = "Binary" -> visit_binary(expression, st, d)
      [] expression.kind = "Grouping" -> visit_grouping(expression, st, d)
      [] expression.kind = "Literal" -> visit_literal(expression, st, d)
      [] expression.kind = "Unary" -> visit_unary(expression, st, d)
      [] expression.kind = "Ternary" -> visit_ternary(expression, st, d)
      [] expression.kind = "Variable" -> visit_variable(expression, st, d)
      [] expression.kind = "Assign" -> visit_assign(expression, st, d)
      [] expression.kind = "Logical" -> visit_logical(expression, st, d)

visit_expression_statement(statement, st, d) ==
    Only({ CASE result.res.tag = "Ok" -> [st |-> result.st, res |-> Unit]
             [] result.res.tag = "Err" ->
                    [st |-> set_error(result.st, result.res.val), res |-> Unit]
             [] OTHER -> result
         : result \in {evaluate_expression(statement.expression, st, d)} })

visit_print(statement, st, d) ==
    Only({ CASE result.res.tag = "Ok" ->
                    [st |-> [result.st EXCEPT !.stdout = Append(@, display(result.res.val))],
                     res |-> Unit]
             [] result.res.tag = "Err" ->
                    [st |-> set_error(result.st, result.res.val), res |-> Unit]
             [] OTHER -> result
         : result \in {evaluate_expression(statement.expression, st, d)} })

\* a visit_var that binds the name to Null when the initializer fails
visit_var_defines_on_error(statement, st, d) ==
    Only({ CASE result.res.tag = "Ok" ->
                    [st |-> [result.st EXCEPT
                                !.environment = define(@, statement.name, result.res.val)],
                     res |-> Unit]
             [] result.res.tag = "Err" ->
                    [st |-> set_error([result.st EXCEPT
                                          !.environment = define(@, statement.name, Null)],
                                      result.res.val),
                     res |-> Unit]
             [] OTHER -> result
         : result \in {evaluate_expression(statement.right, st, d)} })

visit_var(statement, st, d) ==
    Only({ CASE result.res.tag = "Ok" ->
                    [st |-> [result.st EXCEPT
                                !.environment = define(@, statement.name, result.res.val)],
                     res |-> Unit]
             [] result.res.tag = "Err" ->
                    [st |-> set_error(result.st, result.res.val), res |-> Unit]
             [] OTHER -> result
         : result \in {evaluate_expression(statement.right, st, d)} })

\* the for loop of visit_block: the Interpreter after it and, as the value,
\* the local `error` (NoError for None)
block_statements(statements, st, d) ==
    IF statements = <<>> THEN [st |-> st, res |-> Ok(NoError)]
    ELSE Only({ CASE r.res.tag = "Ok" -> block_statements(Tail(statements), r.st, d)
                  [] r.res.tag = "Err" -> [st |-> r.st, res |-> Ok(r.res.val)]
                  [] OTHER -> r
              : r \in {evaluate_statement(Head(statements), st, d)} })

\* a block that runs its statements in the scope it was entered in
visit_block_without_scope(statement, st, d) ==
    Only({ IF ~Returned(r.res) THEN r
           ELSE [st |-> [r.st EXCEPT
                           !.error = r.res.val,
                           !.blocks = @ \cup {[entry |-> Shape(st.environment),
                                               exit |-> Shape(r.st.environment),
                                               failed |-> r.res.val.kind # "None"]}],
                 res |-> Unit]
         : r \in {block_statements(statement.statements, st, d)} })

visit_block(statement, st, d) ==
    Only({ IF ~Returned(r.res) THEN r
           ELSE LET restored == enclosing(r.st.environment)
                IN  [st |-> [r.st EXCEPT
                               !.environment = restored,
                               !.error = r.res.val,
                               !.blocks = @ \cup {[entry |-> Shape(st.environment),
                                                   exit |-> Shape(restored),
                                                   failed |-> r.res.val.kind # "None"]}],
                     res |-> Unit]
         : r \in {block_statements(statement.statements,
                                   [st EXCEPT !.environment = new(st.environment)], d)} })

visit_if(statement, st, d) ==
    Only({ CASE result.res.tag = "Err" ->
                    [st |-> set_error(result.st, result.res.val), res |-> Unit]
             [] result.res.tag = "Ok" ->
                    LET branch == IF is_true(as_boolean(result.res.val))
                                  THEN <<statement.then_branch>>
                                  ELSE statement.else_branch
                    IN  IF branch = <<>> THEN [st |-> result.st, res |-> Unit]
                        ELSE Only({ CASE b.res.tag = "Err" ->
                                            [st |-> set_error(b.st, b.res.val), res |-> Unit]
                                      [] OTHER -> b
                                  : b \in {evaluate_statement(branch[1], result.st, d)} })
             [] OTHER -> result
         : result \in {evaluate_expression(statement.condition, st, d)} })

\* a loop that evaluates its condition once and keeps the value
while_loop_cached_condition(statement, st, d, n) ==
    Only({ CASE result.res.tag = "Err" ->
                    [st |-> set_error(result.st, result.res.val), res |-> Unit]
             [] result.res.tag = "Ok" ->
                    IF is_false(as_boolean(result.res.val))
                    THEN [st |-> result.st, res |-> Unit]
                    ELSE IF n >= MaxIter THEN [st |-> result.st, res |-> Running]
                    ELSE Only({ CASE b.res.tag = "Err" ->
                                        [st |-> set_error(b.st, b.res.val), res |-> Unit]
                                  [] b.res.tag = "Ok" ->
                                        while_loop([statement EXCEPT
                                                       !.condition = Literal(result.res.val)],
                                                   b.st, d, n + 1)
                                  [] OTHER -> b
                              : b \in {evaluate_statement(statement.body, result.st, d)} })
             [] OTHER -> result
         : result \in {evaluate_expression(statement.condition, st, d)} })

\* the loop of visit_while, n iterations in
while_loop(statement, st, d, n) ==
    Only({ CASE result.res.tag = "Err" ->
                    [st |-> set_error(result.st, result.res.val), res |-> Unit]
             [] result.res.tag = "Ok" ->
                    IF is_false(as_boolean(result.res.val))
                    THEN [st |-> result.st, res |-> Unit]
                    ELSE IF n >= MaxIter THEN [st |-> result.st, res |-> Running]
                    ELSE Only({ CASE b.res.tag = "Err" ->
                                        [st |-> set_error(b.st, b.res.val), res |-> Unit]
                                  [] b.res.tag = "Ok" -> while_loop(statement, b.st, d, n + 1)
                                  [] OTHER -> b
                              : b \in {evaluate_statement(statement.body, result.st, d)} })
             [] OTHER -> result
         : result \in {evaluate_expression(statement.condition, st, d)} })

visit_while(statement, st, d) == while_loop(statement, st, d, 0)

accept_statement(statement, st, d) ==
    CASE statement.kind = "ExpressionStatement" -> visit_expression_statement(statement, st, d)
      [] statement.kind = "Print" -> visit_print(statement, st, d)
      [] statement.kind = "Var" -> visit_var(statement, st, d)
      [] statement.kind = "Block" -> visit_block(statement, st, d)
      [] statement.kind = "If" -> visit_if(statement, st, d)
      [] statement.kind = "While" -> visit_while(statement, st, d)

\* the for loop of run: self.evaluate_statement(statement.as_ref())?
\* a run that executes the statements after the failing one and then
\* returns the first error
RECURSIVE run_statements_continues(_, _)
run_statements_continues(statements, st) ==
    IF statements = <<>> THEN [st |-> st, res |-> Unit]
    ELSE Only({ IF r.res.tag \notin {"Ok", "Err"} THEN r
                ELSE Only({ IF r.res.tag = "Err" /\ Returned(rest.res)
                            THEN [st |-> rest.st, res |-> r.res]
                            ELSE rest
                          : rest \in {run_statements_continues(Tail(statements), r.st)} })
              : r \in {evaluate_statement(Head(statements), st, 0)} })

RECURSIVE run_statements(_, _)
run_statements(statements, st) ==
    IF statements = <<>> THEN [st |-> st, res |-> Unit]
    ELSE Only({ IF r.res.tag # "Ok" THEN r ELSE run_statements(Tail(statements), r.st)
              : r \in {evaluate_statement(Head(statements), st, 0)} })

(***************************************************************************)
(* token.rs and parser.rs.  A token is its type and its lexeme (an         *)
(* Option); the scanner's iterator is a sequence of tokens which a         *)
(* ScannerError item may end.  ps is the Tokens cursor: the iterator and   *)
(* the current token.                                                      *)
(***************************************************************************)
Token(type, lexeme) == [type |-> type, lexeme |-> lexeme]

Tokens_new(inner) == [inner |-> inner, current |-> <<>>]

\* Tokens::next: the token that was current; the iterator's next item becomes current
Tokens_next(ps) ==
    IF ps.inner # <<>> /\ Head(ps.inner).type = "ScannerError"
    THEN [ps |-> [inner |-> Tail(ps.inner), current |-> <<>>],
          res |-> Err(ScannerError(Head(ps.inner).lexeme))]
    ELSE IF ps.inner = <<>>
         THEN [ps |-> [inner |-> <<>>, current |-> <<>>], res |-> Ok(ps.current)]
         ELSE [ps |-> [inner |-> Tail(ps.inner), current |-> <<Head(ps.inner)>>],
               res |-> Ok(ps.current)]

\* Some(x?) of a parse: the value wrapped in an Option
Some(r) == IF r.res.tag # "Ok" THEN r ELSE [ps |-> r.ps, res |-> Ok(<<r.res.val>>)]

token_match(ps, variants) == ps.current # <<>> /\ ps.current[1].type \in variants

\* a consume whose error never carries a token
consume_without_token(ps, variants, err_message) ==
    LET n == Tokens_next(ps)
    IN  IF n.res.tag # "Ok" THEN n
        ELSE IF n.res.val # <<>> /\ n.res.val[1].type \in variants
             THEN [ps |-> n.ps, res |-> Ok(n.res.val[1])]
             ELSE [ps |-> n.ps, res |-> Err(ParserError(<<>>, <<err_message>>))]

consume(ps, variants, err_message) ==
    LET n == Tokens_next(ps)
    IN  IF n.res.tag # "Ok" THEN n
        ELSE IF n.res.val = <<>>
             THEN [ps |-> n.ps, res |-> Err(ParserError(<<>>, <<err_message>>))]
             ELSE IF n.res.val[1].type \in variants
                  THEN [ps |-> n.ps, res |-> Ok(n.res.val[1])]
                  ELSE [ps |-> n.ps, res |-> Err(ParserError(n.res.val, <<err_message>>))]

parse_value(token) ==
    IF token.type \notin {"String", "Number"}
    THEN Err(ParserError(<<token>>, <<"Token has no value", token.type>>))
    ELSE IF token.lexeme = <<>>
         THEN Err(ParserError(<<token>>, <<"Token without value">>))
         ELSE IF token.type = "Number"
              THEN LET parsed == parse_number(token.lexeme[1])
                   IN  IF parsed.tag = "Ok" THEN Ok(Number(parsed.val))
                       ELSE Err(ParserError(<<token>>, parsed.val))
              ELSE Ok(String(token.lexeme[1]))

RECURSIVE declaration(_)
RECURSIVE var_declaration(_)
RECURSIVE statement(_)
RECURSIVE for_statement(_)
RECURSIVE while_statement(_)
RECURSIVE if_statement(_)
RECURSIVE block_loop(_, _)
RECURSIVE block(_)
RECURSIVE print_statement(_)
RECURSIVE expression_statement(_)
RECURSIVE expression_loop(_, _)
RECURSIVE expression(_)
RECURSIVE assignment(_)
RECURSIVE level_loop(_, _, _)
RECURSIVE level_function(_, _)
RECURSIVE level_operand(_, _)
RECURSIVE or(_)
RECURSIVE and(_)
RECURSIVE equaity(_)
RECURSIVE comparison(_)
RECURSIVE term(_)
RECURSIVE factor(_)
RECURSIVE ternary(_)
RECURSIVE unary(_)
RECURSIVE primary(_)

declaration(ps) ==
    IF token_match(ps, {"Var"})
    THEN LET n == Tokens_next(ps)
         IN  IF n.res.tag # "Ok" THEN n ELSE var_declaration(n.ps)
    ELSE statement(ps)

\* the initializer of var_declaration
var_initializer(ps) ==
    IF token_match(ps, {"Equal"})
    THEN LET n == Tokens_next(ps)
         IN  IF n.res.tag # "Ok" THEN n ELSE expression(n.ps)
    ELSE [ps |-> ps, res |-> Ok(Literal(Null))]

var_declaration(ps) ==
    LET token == consume(ps, {"Identifier"}, "Expect variable name")
    IN  IF token.res.tag # "Ok" THEN token
        ELSE Only({ IF initializer.res.tag # "Ok" THEN initializer
                    ELSE LET name == token.res.val.lexeme[1]
                             semi == consume(initializer.ps, {"Semicolon"},
                                             "Expect \";\" after expression")
                         IN  IF semi.res.tag # "Ok" THEN semi
                             ELSE [ps |-> semi.ps,
                                   res |-> Ok(Var(name, initializer.res.val))]
                  : initializer \in {var_initializer(token.ps)} })

statement(ps) ==
    IF token_match(ps, {"For", "If", "Print", "While", "LeftBrace"})
    THEN LET n == Tokens_next(ps)
         IN  IF n.res.tag # "Ok" THEN n
             ELSE CASE token_match(ps, {"For"}) -> for_statement(n.ps)
                    [] token_match(ps, {"If"}) -> if_statement(n.ps)
                    [] token_match(ps, {"Print"}) -> print_statement(n.ps)
                    [] token_match(ps, {"While"}) -> while_statement(n.ps)
                    [] token_match(ps, {"LeftBrace"}) -> block(n.ps)
    ELSE expression_statement(ps)

\* the initializer of for_statement: the value is an Option<statement>
for_initializer(ps) ==
    IF token_match(ps, {"Semicolon"})
    THEN LET n == Tokens_next(ps)
         IN  IF n.res.tag # "Ok" THEN n ELSE [ps |-> n.ps, res |-> Ok(<<>>)]
    ELSE IF token_match(ps, {"Var"})
         THEN LET n == Tokens_next(ps)
              IN  IF n.res.tag # "Ok" THEN n ELSE Some(var_declaration(n.ps))
         ELSE Some(expression_statement(ps))

\* the condition of for_statement
for_condition(ps) ==
    IF token_match(ps, {"Semicolon"})
    THEN [ps |-> ps, res |-> Ok(Literal(True))]
    ELSE expression(ps)

\* the increment of for_statement: the value is an Option<expression>
for_increment(ps) ==
    IF token_match(ps, {"RightParen"})
    THEN [ps |-> ps, res |-> Ok(<<>>)]
    ELSE Some(expression(ps))

\* a for statement whose increment runs before its body
for_desugared_increment_first(initializer, condition, increment, body) ==
    LET body1 == IF increment # <<>>
                 THEN Block(<<ExpressionStatement(increment[1]), body>>)
                 ELSE body
        body2 == While(condition, body1)
    IN  IF initializer # <<>> THEN Block(<<initializer[1], body2>>) ELSE body2

\* the statement for_statement builds of its parts
for_desugared(initializer, condition, increment, body) ==
    LET body1 == IF increment # <<>>
                 THEN Block(<<body, ExpressionStatement(increment[1])>>)
                 ELSE body
        body2 == While(condition, body1)
    IN  IF initializer # <<>> THEN Block(<<initializer[1], body2>>) ELSE body2

for_statement(ps) ==
    LET paren == consume(ps, {"LeftParen"}, "Expect \"(' after \"for\"")
    IN  IF paren.res.tag # "Ok" THEN paren ELSE
    Only({ IF initializer.res.tag # "Ok" THEN initializer ELSE
    Only({ IF condition.res.tag # "Ok" THEN condition ELSE
           LET semi == consume(condition.ps, {"Semicolon"}, "expect \";\" after condition")
           IN  IF semi.res.tag # "Ok" THEN semi ELSE
    Only({ IF increment.res.tag # "Ok" THEN increment ELSE
           LET close == consume(increment.ps, {"RightParen"}, "expect \")\" after clauses")
           IN  IF close.res.tag # "Ok" THEN close ELSE
    Only({ IF body.res.tag # "Ok" THEN body
           ELSE [ps |-> body.ps,
                 res |-> Ok(for_desugared(initializer.res.val, condition.res.val,
                                          increment.res.val, body.res.val))]
         : body \in {statement(close.ps)} })
         : increment \in {for_increment(semi.ps)} })
         : condition \in {for_condition(initializer.ps)} })
         : initializer \in {for_initializer(paren.ps)} })

while_statement(ps) ==
    LET paren == consume(ps, {"LeftParen"}, "Expect \"(' after \"while\"")
    IN  IF paren.res.tag # "Ok" THEN paren ELSE
    Only({ IF condition.res.tag # "Ok" THEN condition ELSE
           LET close == consume(condition.ps, {"RightParen"},
                                "Expect \")\" after while condition")
           IN  IF close.res.tag # "Ok" THEN close ELSE
    Only({ IF body.res.tag # "Ok" THEN body
           ELSE [ps |-> body.ps, res |-> Ok(While(condition.res.val, body.res.val))]
         : body \in {statement(close.ps)} })
         : condition \in {expression(paren.ps)} })

\* the else branch of if_statement: the value is an Option<statement>
if_else_branch(ps) ==
    IF token_match(ps, {"Else"})
    THEN LET n == Tokens_next(ps)
         IN  IF n.res.tag # "Ok" THEN n ELSE Some(statement(n.ps))
    ELSE [ps |-> ps, res |-> Ok(<<>>)]

if_statement(ps) ==
    LET paren == consume(ps, {"LeftParen"}, "Expect \"(' after \"if\"")
    IN  IF paren.res.tag # "Ok" THEN paren ELSE
    Only({ IF condition.res.tag # "Ok" THEN condition ELSE
           LET close == consume(condition.ps, {"RightParen"},
                                "Expect \")\" after if condition")
           IN  IF close.res.tag # "Ok" THEN close ELSE
    Only({ IF then_branch.res.tag # "Ok" THEN then_branch ELSE
    Only({ IF else_branch.res.tag # "Ok" THEN else_branch
           ELSE [ps |-> else_branch.ps,
                 res |-> Ok(If(condition.res.val, then_branch.res.val,
                               else_branch.res.val))]
         : else_branch \in {if_else_branch(then_branch.ps)} })
         : then_branch \in {statement(close.ps)} })
         : condition \in {expression(paren.ps)} })

\* while !self.tokens.token_match(&[RightBrace]) { statements.push(self.declaration()?); }
block_loop(ps, statements) ==
    IF token_match(ps, {"RightBrace"}) THEN [ps |-> ps, res |-> Ok(statements)]
    ELSE Only({ IF decl.res.tag # "Ok" THEN decl
                ELSE block_loop(decl.ps, Append(statements, decl.res.val))
              : decl \in {declaration(ps)} })

block(ps) ==
    Only({ IF statements.res.tag # "Ok" THEN statements
           ELSE LET close == consume(statements.ps, {"RightBrace"},
                                     "Expect \"}\" after block")
                IN  IF close.res.tag # "Ok" THEN close
                    ELSE [ps |-> close.ps, res |-> Ok(Block(statements.res.val))]
         : statements \in {block_loop(ps, <<>>)} })

print_statement(ps) ==
    Only({ IF e.res.tag # "Ok" THEN e
           ELSE LET semi == consume(e.ps, {"Semicolon"}, "Expect \";\" after value")
                IN  IF semi.res.tag # "Ok" THEN semi
                    ELSE [ps |-> semi.ps, res |-> Ok(PrintStatement(e.res.val))]
         : e \in {expression(ps)} })

expression_statement(ps) ==
    Only({ IF e.res.tag # "Ok" THEN e
           ELSE LET semi == consume(e.ps, {"Semicolon"}, "Expect \";\" after expression")
                IN  IF semi.res.tag # "Ok" THEN semi
                    ELSE [ps |-> semi.ps, res |-> Ok(ExpressionStatement(e.res.val))]
         : e \in {expression(ps)} })

\* while self.tokens.token_match(&[Comma]) { ... Binary::new(expression, operator, right) }
expression_loop(ps, left) ==
    IF ~token_match(ps, {"Comma"}) THEN [ps |-> ps, res |-> Ok(left)]
    ELSE LET n == Tokens_next(ps)
         IN  IF n.res.tag # "Ok" THEN n
             ELSE Only({ IF right.res.tag # "Ok" THEN right
                         ELSE expression_loop(right.ps,
                                              Binary(left, n.res.val[1], right.res.val))
                       : right \in {assignment(n.ps)} })

expression(ps) ==
    Only({ IF first.res.tag # "Ok" THEN first
           ELSE expression_loop(first.ps, first.res.val)
         : first \in {assignment(ps)} })

\* an assignment that parses the value before it looks at the target
assignment_value_before_target(e, token) ==
    IF token.res.tag # "Ok" THEN token
    ELSE Only({ IF value.res.tag # "Ok" THEN value
                ELSE IF e.res.val.kind = "Variable"
                     THEN [ps |-> value.ps,
                           res |-> Ok(Assign(e.res.val.name, value.res.val))]
                     ELSE [ps |-> value.ps,
                           res |-> Err(ParserError(token.res.val,
                                                   <<"Invalid assignment target">>))]
              : value \in {assignment(token.ps)} })

\* the right-hand side of assignment, the "=" token taken: e is the left-hand side
assignment_value(e, token) ==
    IF token.res.tag # "Ok" THEN token
    ELSE IF e.res.val.kind = "Variable"
         THEN Only({ IF value.res.tag # "Ok" THEN value
                     ELSE [ps |-> value.ps,
                           res |-> Ok(Assign(e.res.val.name, value.res.val))]
                   : value \in {assignment(token.ps)} })
         ELSE [ps |-> token.ps,
               res |-> Err(ParserError(token.res.val, <<"Invalid assignment target">>))]

assignment(ps) ==
    Only({ IF e.res.tag # "Ok" THEN e
           ELSE IF token_match(e.ps, {"Equal"})
                THEN assignment_value(e, Tokens_next(e.ps))
                ELSE e
         : e \in {or(ps)} })

\* or, and, equaity, comparison, term and factor are the same function at
\* six levels of precedence: the operand of the next level, then the loop
\* `while self.tokens.token_match(&variants) { operator, right operand,
\* expression = node::new(expression, operator, right) }`.  A level is the
\* tokens its loop matches and the node it builds.
Levels ==
    <<[variants |-> {"Or"}, node |-> "Logical"],
      [variants |-> {"And"}, node |-> "Logical"],
      [variants |-> {"BangEqual", "EqualEqual"}, node |-> "Binary"],
      [variants |-> {"Greater", "GreaterEqual", "Less", "LessEqual"}, node |-> "Binary"],
      [variants |-> {"Minus", "Plus"}, node |-> "Binary"],
      [variants |-> {"Slash", "Star"}, node |-> "Binary"]>>

\* a loop that takes the whole rest of the chain as its right operand
level_loop_right_nested(level, ps, left) ==
    IF ~token_match(ps, Levels[level].variants) THEN [ps |-> ps, res |-> Ok(left)]
    ELSE LET n == Tokens_next(ps)
         IN  IF n.res.tag # "Ok" THEN n
             ELSE Only({ IF right.res.tag # "Ok" THEN right
                         ELSE [ps |-> right.ps,
                               res |-> Ok(IF Levels[level].node = "Logical"
                                          THEN Logical(left, n.res.val[1], right.res.val)
                                          ELSE Binary(left, n.res.val[1], right.res.val))]
                       : right \in {level_function(level, n.ps)} })

\* the loop of the function at `level`
level_loop(level, ps, left) ==
    IF ~token_match(ps, Levels[level].variants) THEN [ps |-> ps, res |-> Ok(left)]
    ELSE LET n == Tokens_next(ps)
         IN  IF n.res.tag # "Ok" THEN n
             ELSE Only({ IF right.res.tag # "Ok" THEN right
                         ELSE level_loop(level, right.ps,
                                IF Levels[level].node = "Logical"
                                THEN Logical(left, n.res.val[1], right.res.val)
                                ELSE Binary(left, n.res.val[1], right.res.val))
                       : right \in {level_operand(level, n.ps)} })

\* the function at `level`
level_function(level, ps) ==
    Only({ IF first.res.tag # "Ok" THEN first
           ELSE level_loop(level, first.ps, first.res.val)
         : first \in {level_operand(level, ps)} })

\* levels in which comparison calls factor, factor calls term and term
\* calls ternary
level_operand_factor_above_term(level, ps) ==
    CASE level = 1 -> and(ps)
      [] level = 2 -> equaity(ps)
      [] level = 3 -> comparison(ps)
      [] level = 4 -> factor(ps)
      [] level = 6 -> term(ps)
      [] level = 5 -> ternary(ps)

\* the function one level down: or calls and, and calls equaity, ..., factor
\* calls ternary
level_operand(level, ps) ==
    CASE level = 1 -> and(ps)
      [] level = 2 -> equaity(ps)
      [] level = 3 -> comparison(ps)
      [] level = 4 -> term(ps)
      [] level = 5 -> factor(ps)
      [] level = 6 -> ternary(ps)

or(ps) == level_function(1, ps)

and(ps) == level_function(2, ps)

equaity(ps) == level_function(3, ps)

comparison(ps) == level_function(4, ps)

term(ps) == level_function(5, ps)

factor(ps) == level_function(6, ps)

\* branches that take a unary as the third operand and then serve as the
\* condition of the "?" that follows
RECURSIVE ternary_branches_left_nested(_, _)
ternary_branches_left_nested(e, n) ==
    IF n.res.tag # "Ok" THEN n ELSE
    Only({ IF second.res.tag # "Ok" THEN second ELSE
           LET colon == consume(second.ps, {"Colon"}, "Expected \":\" after first expression")
           IN  IF colon.res.tag # "Ok" THEN colon ELSE
    Only({ IF third.res.tag # "Ok" THEN third
           ELSE IF token_match(third.ps, {"Query"})
                THEN ternary_branches_left_nested(
                         [ps |-> third.ps,
                          res |-> Ok(Ternary(n.res.val[1], e.res.val, second.res.val,
                                             third.res.val))],
                         Tokens_next(third.ps))
                ELSE [ps |-> third.ps,
                      res |-> Ok(Ternary(n.res.val[1], e.res.val, second.res.val,
                                         third.res.val))]
         : third \in {unary(colon.ps)} })
         : second \in {expression(n.ps)} })

\* the branches of ternary, the "?" token taken: e is the condition
ternary_branches(e, n) ==
    IF n.res.tag # "Ok" THEN n ELSE
    Only({ IF second.res.tag # "Ok" THEN second ELSE
           LET colon == consume(second.ps, {"Colon"}, "Expected \":\" after first expression")
           IN  IF colon.res.tag # "Ok" THEN colon ELSE
    Only({ IF third.res.tag # "Ok" THEN third
           ELSE [ps |-> third.ps,
                 res |-> Ok(Ternary(n.res.val[1], e.res.val, second.res.val,
                                    third.res.val))]
         : third \in {expression(colon.ps)} })
         : second \in {expression(n.ps)} })

ternary(ps) ==
    Only({ IF e.res.tag # "Ok" THEN e
           ELSE IF ~token_match(e.ps, {"Query"}) THEN e
           ELSE ternary_branches(e, Tokens_next(e.ps))
         : e \in {unary(ps)} })

unary(ps) ==
    IF token_match(ps, {"Bang", "Minus"})
    THEN LET n == Tokens_next(ps)
         IN  IF n.res.tag # "Ok" THEN n
             ELSE Only({ IF right.res.tag # "Ok" THEN right
                         ELSE [ps |-> right.ps,
                               res |-> Ok(Unary(n.res.val[1], right.res.val))]
                       : right \in {unary(n.ps)} })
    ELSE primary(ps)

\* the LeftParen arm of primary
primary_grouping(ps) ==
    Only({ IF e.res.tag # "Ok" THEN e
           ELSE LET close == consume(e.ps, {"RightParen"}, "Expect \")\" after expression")
                IN  IF close.res.tag # "Ok" THEN close
                    ELSE [ps |-> close.ps, res |-> Ok(Grouping(e.res.val))]
         : e \in {expression(ps)} })

primary(ps) ==
    LET n == Tokens_next(ps)
    IN  IF n.res.tag # "Ok" THEN n
        ELSE IF n.res.val = <<>>
             THEN [ps |-> n.ps, res |-> Err(ParserError(<<>>, <<"Expect token">>))]
             ELSE
    LET token == n.res.val[1]
    IN  CASE token.type = "False" -> [ps |-> n.ps, res |-> Ok(Literal(False))]
          [] token.type = "True" -> [ps |-> n.ps, res |-> Ok(Literal(True))]
          [] token.type = "Null" -> [ps |-> n.ps, res |-> Ok(Literal(Null))]
          [] token.type \in {"Number", "String"} ->
                LET value == parse_value(token)
                IN  IF value.tag # "Ok" THEN [ps |-> n.ps, res |-> value]
                    ELSE [ps |-> n.ps, res |-> Ok(Literal(value.val))]
          [] token.type = "Identifier" ->
                [ps |-> n.ps, res |-> Ok(Variable(token.lexeme[1]))]
          [] token.type = "LeftParen" -> primary_grouping(n.ps)
          [] OTHER ->
                [ps |-> n.ps,
                 res |-> Err(ParserError(<<token>>, <<"Unexpeceted token", token.type>>))]

\* a parse that returns after its first statement
parse_loop_first_statement(ps, result) ==
    IF ps.current = <<>> THEN [ps |-> ps, res |-> Ok(result)]
    ELSE Only({ IF decl.res.tag # "Ok" THEN decl
                ELSE [ps |-> decl.ps, res |-> Ok(Append(result, decl.res.val))]
              : decl \in {declaration(ps)} })

\* the loop of parse: while self.tokens.current() is Some, push self.declaration()?
RECURSIVE parse_loop(_, _)
parse_loop(ps, result) ==
    IF ps.current = <<>> THEN [ps |-> ps, res |-> Ok(result)]
    ELSE Only({ IF decl.res.tag # "Ok" THEN decl
                ELSE parse_loop(decl.ps, Append(result, decl.res.val))
              : decl \in {declaration(ps)} })

\* Parser::new(&mut tokens).parse()
parse(tokens) ==
    LET n == Tokens_next(Tokens_new(tokens))
    IN  IF n.res.tag # "Ok" THEN n ELSE parse_loop(n.ps, <<>>)

\* a run that executes each statement as soon as it is parsed
RECURSIVE run_statement_by_statement(_, _)
run_statement_by_statement(ps, st) ==
    IF ps.current = <<>> THEN [st |-> st, res |-> Unit]
    ELSE Only({ IF decl.res.tag # "Ok" THEN [st |-> st, res |-> decl.res]
                ELSE Only({ IF r.res.tag # "Ok" THEN r
                            ELSE run_statement_by_statement(decl.ps, r.st)
                          : r \in {evaluate_statement(decl.res.val, st, 0)} })
              : decl \in {declaration(ps)} })

run_before_parse_ends(st, tokens) ==
    LET n == Tokens_next(Tokens_new(tokens))
    IN  IF n.res.tag # "Ok" THEN [st |-> st, res |-> n.res]
        ELSE run_statement_by_statement(n.ps, st)

\* Interpreter::run on the tokens the Scanner yields for `code`
run(st, tokens) ==
    Only({ IF statements.res.tag # "Ok" THEN [st |-> st, res |-> statements.res]
           ELSE run_statements(statements.res.val, st)
         : statements \in {parse(tokens)} })

(***************************************************************************)
(* token.rs and ast.rs: the text of a token and the Printer.  What the     *)
(* Printer writes for one expression is one text.                          *)
(***************************************************************************)
\* impl fmt::Display for Token
token_display(token) ==
    CASE token.type = "LeftParen" -> <<"(">>
      [] token.type = "RightParen" -> <<")">>
      [] token.type = "LeftBrace" -> <<"{">>
      [] token.type = "RightBrace" -> <<"}">>
      [] token.type = "Comma" -> <<",">>
      [] token.type = "Minus" -> <<"-">>
      [] token.type = "Plus" -> <<"+">>
      [] token.type = "Semicolon" -> <<";">>
      [] token.type = "Slash" -> <<"/">>
      [] token.type = "Star" -> <<"*">>
      [] token.type = "Bang" -> <<"!">>
      [] token.type = "BangEqual" -> <<"!", "=">>
      [] token.type = "Equal" -> <<"=">>
      [] token.type = "EqualEqual" -> <<"=", "=">>
      [] token.type = "Greater" -> <<">">>
      [] token.type = "GreaterEqual" -> <<">", "=">>
      [] token.type = "Less" -> <<"<">>
      [] token.type = "LessEqual" -> <<"<", "=">>
      [] token.type = "And" -> <<"a", "n", "d">>
      [] token.type = "Else" -> <<"e", "l", "s", "e">>
      [] token.type = "False" -> <<"f", "a", "l", "s", "e">>
      [] token.type = "For" -> <<"f", "o", "r">>
      [] token.type = "If" -> <<"i", "f">>
      [] token.type = "Null" -> <<"n", "u", "l", "l">>
      [] token.type = "Or" -> <<"o", "r">>
      [] token.type = "Print" -> <<"p", "r", "i", "n", "t">>
      [] token.type = "True" -> <<"t", "r", "u", "e">>
      [] token.type = "Var" -> <<"v", "a", "r">>
      [] token.type = "While" -> <<"w", "h", "i", "l", "e">>
      [] token.type = "Query" -> <<"?">>
      [] token.type = "Colon" -> <<":">>
      [] token.type = "String" -> <<"\"">> \o token.lexeme[1] \o <<"\"">>
      [] token.type \in {"Number", "Identifier"} -> token.lexeme[1]

RECURSIVE Printer_print(_)

\* impl ExpressionVisitor for Printer: what the visit method of the node writes
Printer_accept(e) ==
    CASE e.kind \in {"Binary", "Logical"} ->
            <<"(">> \o token_display(e.operator) \o <<" ">>
                \o Printer_print(e.left) \o <<" ">>
                \o Printer_print(e.right) \o <<")">>
      [] e.kind = "Grouping" ->
            <<"(", "g", "r", "o", "u", "p", " ">>
                \o Printer_print(e.expression) \o <<")">>
      [] e.kind = "Literal" -> display(e.value)
      [] e.kind = "Unary" ->
            <<"(">> \o token_display(e.operator) \o <<" ">>
                \o Printer_print(e.right) \o <<")">>
      [] e.kind = "Ternary" ->
            <<"(">> \o token_display(e.operator) \o <<" ">>
                \o Printer_print(e.first) \o <<" ">>
                \o Printer_print(e.second) \o <<" ">>
                \o Printer_print(e.third) \o <<")">>
      [] e.kind = "Variable" ->
            <<"(", "v", "a", "r", "i", "a", "b", "l", "e", " ", "\"">>
                \o e.name \o <<"\"", ")">>
      [] e.kind = "Assign" ->
            <<"(", "a", "s", "s", "i", "g", "n", " ", "\"">> \o e.name
                \o <<"\"", " ">> \o Printer_print(e.value) \o <<")">>

\* Printer::print: expression.accept(self)
Printer_print(e) == Printer_accept(e)

(***************************************************************************)
(* The process: one Interpreter, and the source texts handed to run.  The  *)
(* texts are written with two literals, lhs and rhs, drawn once from       *)
(* Values.                                                                 *)
(***************************************************************************)
VARIABLES
    environment,    \* Interpreter.environment
    stack,          \* Interpreter.stack
    error,          \* Interpreter.error
    stdout,         \* the lines the last call of run wrote
    blocks,         \* history: the visit_block calls of the last call of run
    code,           \* the tokens of the source text of the last call of run
    result,         \* what the last call of run returned
    runs,           \* the calls of run so far
    lhs,            \* the literal written L below
    rhs             \* the literal written R below

vars == <<environment, stack, error, stdout, blocks, code, result, runs, lhs, rhs>>

Values ==
    {True, False, Null, Number(0), Number(2), String(<<>>), String(<<"2">>), String(<<"x">>)}

T(type) == Token(type, <<>>)

Ident(name) == Token("Identifier", <<name>>)

\* the token the scanner yields for the literal that denotes `value`
Lit(value) ==
    CASE value.t = "True" -> T("True")
      [] value.t = "False" -> T("False")
      [] value.t = "Null" -> T("Null")
      [] value.t = "Number" -> Token("Number", <<format_number(value.n)>>)
      [] value.t = "String" -> Token("String", <<value.s>>)

NameA == <<"a">>

NameB == <<"b">>

NameHit == <<"h", "i", "t">>

NameR == <<"r">>

NameU == <<"u">>

\* u = L;
SrcAssignUndefined == <<Ident(NameU), T("Equal"), Lit(lhs), T("Semicolon")>>

\* { var b = L; u = R; }
SrcAssignUndefinedInBlock ==
    <<T("LeftBrace"), T("Var"), Ident(NameB), T("Equal"), Lit(lhs), T("Semicolon"),
      Ident(NameU), T("Equal"), Lit(rhs), T("Semicolon"), T("RightBrace")>>

\* var hit = false; L or (hit = true);
SrcOrHit ==
    <<T("Var"), Ident(NameHit), T("Equal"), T("False"), T("Semicolon"),
      Lit(lhs), T("Or"), T("LeftParen"), Ident(NameHit), T("Equal"), T("True"),
      T("RightParen"), T("Semicolon")>>

\* var hit = false; L and (hit = true);
SrcAndHit ==
    <<T("Var"), Ident(NameHit), T("Equal"), T("False"), T("Semicolon"),
      Lit(lhs), T("And"), T("LeftParen"), Ident(NameHit), T("Equal"), T("True"),
      T("RightParen"), T("Semicolon")>>

\* var r = L or R;
SrcOr ==
    <<T("Var"), Ident(NameR), T("Equal"), Lit(lhs), T("Or"), Lit(rhs), T("Semicolon")>>

\* var r = L and R;
SrcAnd ==
    <<T("Var"), Ident(NameR), T("Equal"), Lit(lhs), T("And"), Lit(rhs), T("Semicolon")>>

\* var a = L; { var a = R; print a; } print a;
SrcShadow ==
    <<T("Var"), Ident(NameA), T("Equal"), Lit(lhs), T("Semicolon"),
      T("LeftBrace"), T("Var"), Ident(NameA), T("Equal"), Lit(rhs), T("Semicolon"),
      T("Print"), Ident(NameA), T("Semicolon"), T("RightBrace"),
      T("Print"), Ident(NameA), T("Semicolon")>>

\* { var b = L; } print b;
SrcInnerOnly ==
    <<T("LeftBrace"), T("Var"), Ident(NameB), T("Equal"), Lit(lhs), T("Semicolon"),
      T("RightBrace"), T("Print"), Ident(NameB), T("Semicolon")>>

\* var a = L; var hit = L; { a = R; } print a;
SrcAssignOuter ==
    <<T("Var"), Ident(NameA), T("Equal"), Lit(lhs), T("Semicolon"),
      T("Var"), Ident(NameHit), T("Equal"), Lit(lhs), T("Semicolon"),
      T("LeftBrace"), Ident(NameA), T("Equal"), Lit(rhs), T("Semicolon"), T("RightBrace"),
      T("Print"), Ident(NameA), T("Semicolon")>>

\* var a = L; { var a = L; a = R; print a; } print a;
SrcAssignInner ==
    <<T("Var"), Ident(NameA), T("Equal"), Lit(lhs), T("Semicolon"),
      T("LeftBrace"), T("Var"), Ident(NameA), T("Equal"), Lit(lhs), T("Semicolon"),
      Ident(NameA), T("Equal"), Lit(rhs), T("Semicolon"),
      T("Print"), Ident(NameA), T("Semicolon"), T("RightBrace"),
      T("Print"), Ident(NameA), T("Semicolon")>>

\* { var a = L; { var b = R; { print u; } print b; } print a; }
SrcNestedFailure ==
    <<T("LeftBrace"), T("Var"), Ident(NameA), T("Equal"), Lit(lhs), T("Semicolon"),
      T("LeftBrace"), T("Var"), Ident(NameB), T("Equal"), Lit(rhs), T("Semicolon"),
      T("LeftBrace"), T("Print"), Ident(NameU), T("Semicolon"), T("RightBrace"),
      T("Print"), Ident(NameB), T("Semicolon"), T("RightBrace"),
      T("Print"), Ident(NameA), T("Semicolon"), T("RightBrace")>>

\* print -L;
SrcNegate == <<T("Print"), T("Minus"), Lit(lhs), T("Semicolon")>>

\* print !L;
SrcNot == <<T("Print"), T("Bang"), Lit(lhs), T("Semicolon")>>

\* print L, R;
SrcComma == <<T("Print"), Lit(lhs), T("Comma"), Lit(rhs), T("Semicolon")>>

\* var r = L == R;
SrcEqual ==
    <<T("Var"), Ident(NameR), T("Equal"), Lit(lhs), T("EqualEqual"), Lit(rhs), T("Semicolon")>>

\* var r = L != R;
SrcNotEqual ==
    <<T("Var"), Ident(NameR), T("Equal"), Lit(lhs), T("BangEqual"), Lit(rhs), T("Semicolon")>>

\* print a;
SrcPrintA == <<T("Print"), Ident(NameA), T("Semicolon")>>

\* the texts about scopes and assignment
ScopeSources ==
    {SrcAssignUndefined, SrcAssignUndefinedInBlock, SrcShadow, SrcInnerOnly,
     SrcAssignOuter, SrcAssignInner, SrcNestedFailure, SrcPrintA}

\* the texts about operators
OperatorSources ==
    {SrcOrHit, SrcAndHit, SrcOr, SrcAnd, SrcNegate, SrcNot, SrcComma, SrcEqual, SrcNotEqual}

Init ==
    /\ environment = Interpreter_new.environment
    /\ stack = Interpreter_new.stack
    /\ error = Interpreter_new.error
    /\ stdout = <<>>
    /\ blocks = {}
    /\ code = <<>>
    /\ result = Unit
    /\ runs = 0
    /\ lhs \in Values
    /\ rhs \in Values

\* interpreter.run(&buffer): a panic or a stack overflow ends the process,
\* and a run that does not return is never followed by another
Run(tokens) ==
    /\ runs < MaxRuns
    /\ Returned(result)
    /\ \E r \in {run([environment |-> environment, stack |-> stack, error |-> error,
                      stdout |-> <<>>, blocks |-> {}], tokens)} :
           /\ environment' = r.st.environment
           /\ stack' = r.st.stack
           /\ error' = r.st.error
           /\ stdout' = r.st.stdout
           /\ blocks' = r.st.blocks
           /\ result' = r.res
    /\ code' = tokens
    /\ runs' = runs + 1
    /\ UNCHANGED <<lhs, rhs>>

Next == \E tokens \in ScopeSources : Run(tokens)

Spec == Init /\ [][Next]_vars

NextOperators == \E tokens \in OperatorSources : Run(tokens)

SpecOperators == Init /\ [][NextOperators]_vars

(***************************************************************************)
(* The parser alone: Parser::parse on the tokens of a source, and the      *)
(* Printer on the expression of every expression statement it returns.     *)
(***************************************************************************)
\* pairs of operators of one precedence tier
ChainOperators ==
    {<<"Or", "Or">>, <<"And", "And">>, <<"EqualEqual", "BangEqual">>,
     <<"BangEqual", "EqualEqual">>, <<"Less", "GreaterEqual">>,
     <<"Greater", "LessEqual">>, <<"Minus", "Plus">>, <<"Plus", "Minus">>,
     <<"Star", "Slash">>, <<"Slash", "Star">>}

\* L op1 R op2 L ;
SrcChain(ops) == <<Lit(lhs), T(ops[1]), Lit(rhs), T(ops[2]), Lit(lhs), T("Semicolon")>>

\* 1 - 2 - 3 ;
SrcOneTwoThree ==
    <<Token("Number", <<<<"1">>>>), T("Minus"), Token("Number", <<<<"2">>>>), T("Minus"),
      Token("Number", <<<<"3">>>>), T("Semicolon")>>

\* a ? b : hit ? r : u ;
SrcTernaryChain ==
    <<Ident(NameA), T("Query"), Ident(NameB), T("Colon"), Ident(NameHit), T("Query"),
      Ident(NameR), T("Colon"), Ident(NameU), T("Semicolon")>>

\* L ? R : R ? L : L ;
SrcTernaryValues ==
    <<Lit(lhs), T("Query"), Lit(rhs), T("Colon"), Lit(rhs), T("Query"), Lit(lhs),
      T("Colon"), Lit(lhs), T("Semicolon")>>

\* expressions other than a variable: L, (a), -a, !a, a + b, a or b, a == L,
\* a ? b : L
InvalidTargets ==
    {<<Lit(lhs)>>,
     <<T("LeftParen"), Ident(NameA), T("RightParen")>>,
     <<T("Minus"), Ident(NameA)>>,
     <<T("Bang"), Ident(NameA)>>,
     <<Ident(NameA), T("Plus"), Ident(NameB)>>,
     <<Ident(NameA), T("Or"), Ident(NameB)>>,
     <<Ident(NameA), T("EqualEqual"), Lit(lhs)>>,
     <<Ident(NameA), T("Query"), Ident(NameB), T("Colon"), Lit(lhs)>>}

\* what follows the "=": R ;   ;   =   and the end of the input
Followers == {<<Lit(rhs), T("Semicolon")>>, <<T("Semicolon")>>, <<T("Equal")>>, <<>>}

\* target = rest
SrcInvalidTarget(target, rest) == target \o <<T("Equal")>> \o rest

\* print L
SrcPrintNoSemicolon == <<T("Print"), Lit(lhs)>>

\* print L R ;
SrcPrintTwoValues == <<T("Print"), Lit(lhs), Lit(rhs), T("Semicolon")>>

\* print L ; var = R ; print ) ;
SrcFirstOfTwoErrors ==
    <<T("Print"), Lit(lhs), T("Semicolon"), T("Var"), T("Equal"), Lit(rhs), T("Semicolon"),
      T("Print"), T("RightParen"), T("Semicolon")>>

\* ( L ;
SrcUnclosedGroup == <<T("LeftParen"), Lit(lhs), T("Semicolon")>>

\* ( L
SrcUnclosedGroupAtEnd == <<T("LeftParen"), Lit(lhs)>>

\* if L ) print R ;
SrcIfNoParen ==
    <<T("If"), Lit(lhs), T("RightParen"), T("Print"), Lit(rhs), T("Semicolon")>>

\* L ? R ;
SrcTernaryNoColon == <<Lit(lhs), T("Query"), Lit(rhs), T("Semicolon")>>

\* a = L ; b = R ; while
SrcStatementsThenError ==
    <<Ident(NameA), T("Equal"), Lit(lhs), T("Semicolon"),
      Ident(NameB), T("Equal"), Lit(rhs), T("Semicolon"), T("While")>>

FailingSources ==
    {SrcPrintNoSemicolon, SrcPrintTwoValues, SrcFirstOfTwoErrors, SrcUnclosedGroup,
     SrcUnclosedGroupAtEnd, SrcIfNoParen, SrcTernaryNoColon, SrcStatementsThenError}

ParserSources ==
    FailingSources \cup {SrcChain(ops) : ops \in ChainOperators}
        \cup {SrcOneTwoThree, SrcTernaryChain, SrcTernaryValues}
        \cup {SrcInvalidTarget(target, rest) : target \in InvalidTargets, rest \in Followers}

\* the texts the Printer writes, one for each expression statement
PrintedStatements(statements) ==
    LET expressions == SelectSeq(statements, LAMBDA s : s.kind = "ExpressionStatement")
    IN  [i \in 1..Len(expressions) |-> Printer_print(expressions[i].expression)]

\* Parser::new(&mut tokens).parse(), then Printer.print on what it returned
ParseAndPrint(tokens) ==
    /\ runs < MaxRuns
    /\ \E r \in {parse(tokens)} :
           /\ result' = r.res
           /\ stdout' = IF r.res.tag = "Ok" THEN PrintedStatements(r.res.val) ELSE <<>>
    /\ code' = tokens
    /\ runs' = runs + 1
    /\ UNCHANGED <<environment, stack, error, blocks, lhs, rhs>>

NextParser == \E tokens \in ParserSources : ParseAndPrint(tokens)

SpecParser == Init /\ [][NextParser]_vars

(***************************************************************************)
(* The parser given expressions that mix the tiers of precedence.          *)
(***************************************************************************)
\* one binary operator of each tier, from the loosest to the tightest
TierOperators == <<"Comma", "Or", "And", "EqualEqual", "Less", "Plus", "Star">>

\* the pairs <<lo, hi>> of operators with hi on a tighter tier, and those of
\* `+` with `/` and of `-` with `*`
TierPairs ==
    {<<TierOperators[tiers[1]], TierOperators[tiers[2]]>> :
        tiers \in {pair \in (1..7) \X (1..7) : pair[1] < pair[2]}}
        \cup {<<"Plus", "Slash">>, <<"Minus", "Star">>, <<"BangEqual", "GreaterEqual">>}

\* L lo R hi a ;
SrcLooseTight(ops) == <<Lit(lhs), T(ops[1]), Lit(rhs), T(ops[2]), Ident(NameA), T("Semicolon")>>

\* L hi R lo a ;
SrcTightLoose(ops) == <<Lit(lhs), T(ops[2]), Lit(rhs), T(ops[1]), Ident(NameA), T("Semicolon")>>

\* 1 + 2 * 3 ;
SrcOnePlusTwoTimesThree ==
    <<Token("Number", <<<<"1">>>>), T("Plus"), Token("Number", <<<<"2">>>>), T("Star"),
      Token("Number", <<<<"3">>>>), T("Semicolon")>>

\* a or b and hit ;
SrcOrAnd ==
    <<Ident(NameA), T("Or"), Ident(NameB), T("And"), Ident(NameHit), T("Semicolon")>>

\* a = L or R ;
SrcAssignOr == <<Ident(NameA), T("Equal"), Lit(lhs), T("Or"), Lit(rhs), T("Semicolon")>>

\* a = L , b = R ;
SrcCommaAssign ==
    <<Ident(NameA), T("Equal"), Lit(lhs), T("Comma"), Ident(NameB), T("Equal"), Lit(rhs),
      T("Semicolon")>>

\* L * R ? a : b ;
SrcFactorTernary ==
    <<Lit(lhs), T("Star"), Lit(rhs), T("Query"), Ident(NameA), T("Colon"), Ident(NameB),
      T("Semicolon")>>

\* - L ? a : b ;
SrcUnaryTernary ==
    <<T("Minus"), Lit(lhs), T("Query"), Ident(NameA), T("Colon"), Ident(NameB),
      T("Semicolon")>>

\* ! L * R ;
SrcUnaryFactor == <<T("Bang"), Lit(lhs), T("Star"), Lit(rhs), T("Semicolon")>>

PrecedenceSources ==
    {SrcLooseTight(ops) : ops \in TierPairs} \cup {SrcTightLoose(ops) : ops \in TierPairs}
        \cup {SrcOnePlusTwoTimesThree, SrcOrAnd, SrcAssignOr, SrcCommaAssign,
              SrcFactorTernary, SrcUnaryTernary, SrcUnaryFactor}

NextPrecedence == \E tokens \in PrecedenceSources : ParseAndPrint(tokens)

SpecPrecedence == Init /\ [][NextPrecedence]_vars

(***************************************************************************)
(* The parser given every token stream of up to MaxLen tokens over a small *)
(* alphabet, well formed or not.  A Parser borrows the iterator of one     *)
(* stream: there is one parse for each stream.                             *)
(***************************************************************************)
\* {   }   L   ;   +
Alphabet == {T("LeftBrace"), T("RightBrace"), Lit(lhs), T("Semicolon"), T("Plus")}

\* L ; R ;      L + R ;      { L ; }      { } { }      { L + R ;
\* R ; { L ; } L + R ;      { R ; { L ; }
LongerStreams ==
    {<<Lit(lhs), T("Semicolon"), Lit(rhs), T("Semicolon")>>,
     <<Lit(lhs), T("Plus"), Lit(rhs), T("Semicolon")>>,
     <<T("LeftBrace"), Lit(lhs), T("Semicolon"), T("RightBrace")>>,
     <<T("LeftBrace"), T("RightBrace"), T("LeftBrace"), T("RightBrace")>>,
     <<T("LeftBrace"), Lit(lhs), T("Plus"), Lit(rhs), T("Semicolon")>>,
     <<Lit(rhs), T("Semicolon"), T("LeftBrace"), Lit(lhs), T("Semicolon"), T("RightBrace"),
       Lit(lhs), T("Plus"), Lit(rhs), T("Semicolon")>>,
     <<T("LeftBrace"), Lit(rhs), T("Semicolon"), T("LeftBrace"), Lit(lhs), T("Semicolon"),
       T("RightBrace")>>}

Streams == UNION {[1..n -> Alphabet] : n \in 0..MaxLen} \cup LongerStreams

NextStreams == \E tokens \in Streams : runs = 0 /\ ParseAndPrint(tokens)

SpecStreams == Init /\ [][NextStreams]_vars

(***************************************************************************)
(* Loops: the prompt given for statements.                                 *)
(***************************************************************************)
NameI == <<"i">>

\* for (var i = 0; i < n; i = i + 1) print i;
SrcFor(n) ==
    <<T("For"), T("LeftParen"), T("Var"), Ident(NameI), T("Equal"), Lit(Number(0)),
      T("Semicolon"), Ident(NameI), T("Less"), Lit(Number(n)), T("Semicolon"),
      Ident(NameI), T("Equal"), Ident(NameI), T("Plus"), Lit(Number(1)),
      T("RightParen"), T("Print"), Ident(NameI), T("Semicolon")>>

\* the loops that end within MaxIter iterations
\* var i = n; while (i = i - 1) print i; print i;
SrcWhileCountdown(n) ==
    <<T("Var"), Ident(NameI), T("Equal"), Lit(Number(n)), T("Semicolon"),
      T("While"), T("LeftParen"), Ident(NameI), T("Equal"), Ident(NameI), T("Minus"),
      Lit(Number(1)), T("RightParen"), T("Print"), Ident(NameI), T("Semicolon"),
      T("Print"), Ident(NameI), T("Semicolon")>>

\* var a = L; while (a) { print a; a = null; } print R;
SrcWhileOnce ==
    <<T("Var"), Ident(NameA), T("Equal"), Lit(lhs), T("Semicolon"),
      T("While"), T("LeftParen"), Ident(NameA), T("RightParen"),
      T("LeftBrace"), T("Print"), Ident(NameA), T("Semicolon"),
      Ident(NameA), T("Equal"), T("Null"), T("Semicolon"), T("RightBrace"),
      T("Print"), Lit(rhs), T("Semicolon")>>

\* while (u) print L; print R;
SrcWhileUndefinedCondition ==
    <<T("While"), T("LeftParen"), Ident(NameU), T("RightParen"),
      T("Print"), Lit(lhs), T("Semicolon"), T("Print"), Lit(rhs), T("Semicolon")>>

\* var i = 2; while (i = i - 1) { print i; print u; print R; } print R;
SrcWhileFailingBody ==
    <<T("Var"), Ident(NameI), T("Equal"), Lit(Number(2)), T("Semicolon"),
      T("While"), T("LeftParen"), Ident(NameI), T("Equal"), Ident(NameI), T("Minus"),
      Lit(Number(1)), T("RightParen"),
      T("LeftBrace"), T("Print"), Ident(NameI), T("Semicolon"),
      T("Print"), Ident(NameU), T("Semicolon"),
      T("Print"), Lit(rhs), T("Semicolon"), T("RightBrace"),
      T("Print"), Lit(rhs), T("Semicolon")>>

\* var i = 0; var a = "1"; while (i < a) { print i; a = "x"; } print R;
SrcWhileConditionFailsLater ==
    <<T("Var"), Ident(NameI), T("Equal"), Lit(Number(0)), T("Semicolon"),
      T("Var"), Ident(NameA), T("Equal"), Lit(String(<<"1">>)), T("Semicolon"),
      T("While"), T("LeftParen"), Ident(NameI), T("Less"), Ident(NameA), T("RightParen"),
      T("LeftBrace"), T("Print"), Ident(NameI), T("Semicolon"),
      Ident(NameA), T("Equal"), Lit(String(<<"x">>)), T("Semicolon"), T("RightBrace"),
      T("Print"), Lit(rhs), T("Semicolon")>>

\* for (var name = 0; name < 2; name = name + 1) print name;
SrcForTwice(name) ==
    <<T("For"), T("LeftParen"), T("Var"), Ident(name), T("Equal"), Lit(Number(0)),
      T("Semicolon"), Ident(name), T("Less"), Lit(Number(2)), T("Semicolon"),
      Ident(name), T("Equal"), Ident(name), T("Plus"), Lit(Number(1)),
      T("RightParen"), T("Print"), Ident(name), T("Semicolon")>>

\* var a = L; for (var a = 0; a < 2; a = a + 1) print a; print a;
SrcForShadows ==
    <<T("Var"), Ident(NameA), T("Equal"), Lit(lhs), T("Semicolon")>>
        \o SrcForTwice(NameA) \o <<T("Print"), Ident(NameA), T("Semicolon")>>

\* for (var b = 0; b < 2; b = b + 1) print b; print b;
SrcForThenUndefined == SrcForTwice(NameB) \o <<T("Print"), Ident(NameB), T("Semicolon")>>

LoopSources ==
    {SrcFor(n) : n \in 0..MaxIter} \cup {SrcWhileCountdown(n) : n \in 1..MaxIter}
        \cup {SrcWhileOnce, SrcWhileUndefinedCondition, SrcWhileFailingBody,
              SrcWhileConditionFailsLater, SrcForShadows, SrcForThenUndefined}

NextLoops == \E tokens \in LoopSources : Run(tokens)

SpecLoops == Init /\ [][NextLoops]_vars

(***************************************************************************)
(* Programs: the prompt given statements about the ternary operator,       *)
(* failures and addition.                                                  *)
(***************************************************************************)
\* var a = 0; var b = 0;
SrcDefineAB ==
    <<T("Var"), Ident(NameA), T("Equal"), Lit(Number(0)), T("Semicolon"),
      T("Var"), Ident(NameB), T("Equal"), Lit(Number(0)), T("Semicolon")>>

\* var a = 0; var b = 0; L ? a = 2 : b = 2;
SrcTernaryAssign ==
    SrcDefineAB \o
    <<Lit(lhs), T("Query"), Ident(NameA), T("Equal"), Lit(Number(2)), T("Colon"),
      Ident(NameB), T("Equal"), Lit(Number(2)), T("Semicolon")>>

\* var a = 0; var b = 0; L ? a = 2 : u;
SrcTernaryUndefinedThird ==
    SrcDefineAB \o
    <<Lit(lhs), T("Query"), Ident(NameA), T("Equal"), Lit(Number(2)), T("Colon"),
      Ident(NameU), T("Semicolon")>>

\* var a = 0; var b = 0; L ? u : b = 2;
SrcTernaryUndefinedSecond ==
    SrcDefineAB \o
    <<Lit(lhs), T("Query"), Ident(NameU), T("Colon"), Ident(NameB), T("Equal"),
      Lit(Number(2)), T("Semicolon")>>

\* var a = 0; var b = 0; u ? a = 2 : b = 2;
SrcTernaryUndefinedCondition ==
    SrcDefineAB \o
    <<Ident(NameU), T("Query"), Ident(NameA), T("Equal"), Lit(Number(2)), T("Colon"),
      Ident(NameB), T("Equal"), Lit(Number(2)), T("Semicolon")>>

\* var a = L; print a; print u; var a = R; print R;
SrcFailTopLevel ==
    <<T("Var"), Ident(NameA), T("Equal"), Lit(lhs), T("Semicolon"),
      T("Print"), Ident(NameA), T("Semicolon"),
      T("Print"), Ident(NameU), T("Semicolon"),
      T("Var"), Ident(NameA), T("Equal"), Lit(rhs), T("Semicolon"),
      T("Print"), Lit(rhs), T("Semicolon")>>

\* { a = L; print a; print u; a = R; print R; }
SrcFailingBody ==
    <<T("LeftBrace"), Ident(NameA), T("Equal"), Lit(lhs), T("Semicolon"),
      T("Print"), Ident(NameA), T("Semicolon"),
      T("Print"), Ident(NameU), T("Semicolon"),
      Ident(NameA), T("Equal"), Lit(rhs), T("Semicolon"),
      T("Print"), Lit(rhs), T("Semicolon"), T("RightBrace")>>

\* var a = 0; var b = 0; { a = L; print a; print u; a = R; print R; } a = R; print R;
SrcFailInBlock ==
    SrcDefineAB \o SrcFailingBody \o
    <<Ident(NameA), T("Equal"), Lit(rhs), T("Semicolon"),
      T("Print"), Lit(rhs), T("Semicolon")>>

\* var a = 0; var b = 0;
\* while (true) { a = L; print a; print u; a = R; print R; } a = R; print R;
SrcFailInLoop ==
    SrcDefineAB \o <<T("While"), T("LeftParen"), T("True"), T("RightParen")>>
        \o SrcFailingBody \o
    <<Ident(NameA), T("Equal"), Lit(rhs), T("Semicolon"),
      T("Print"), Lit(rhs), T("Semicolon")>>

\* var r = left + right;
SrcAdd(left, right) ==
    <<T("Var"), Ident(NameR), T("Equal"), Lit(left), T("Plus"), Lit(right), T("Semicolon")>>

\* the operands of `"3" + 1`, `1 + "3"` and `1 + "a"`
AddExamples ==
    {<<String(<<"3">>), Number(1)>>, <<Number(1), String(<<"3">>)>>,
     <<Number(1), String(<<"a">>)>>}

ProgramSources ==
    {SrcTernaryAssign, SrcTernaryUndefinedThird, SrcTernaryUndefinedSecond,
     SrcTernaryUndefinedCondition, SrcFailTopLevel, SrcFailInBlock, SrcFailInLoop,
     SrcAdd(lhs, rhs)}
        \cup {SrcAdd(operands[1], operands[2]) : operands \in AddExamples}

NextPrograms == \E tokens \in ProgramSources : Run(tokens)

SpecPrograms == Init /\ [][NextPrograms]_vars

(***************************************************************************)
(* The prompt given lines that fail to scan, to parse or to run, and       *)
(* lines that run.                                                         *)
(***************************************************************************)
\* print L; @      the scanner's iterator yields Err for the character "@"
SrcScanFailure ==
    <<T("Print"), Lit(lhs), T("Semicolon"),
      Token("ScannerError", <<"Unexpected character", "@">>)>>

\* var a = L; { var a = R; print a; var a; print a; } print a;
SrcVarInBlock ==
    <<T("Var"), Ident(NameA), T("Equal"), Lit(lhs), T("Semicolon"),
      T("LeftBrace"), T("Var"), Ident(NameA), T("Equal"), Lit(rhs), T("Semicolon"),
      T("Print"), Ident(NameA), T("Semicolon"),
      T("Var"), Ident(NameA), T("Semicolon"),
      T("Print"), Ident(NameA), T("Semicolon"), T("RightBrace"),
      T("Print"), Ident(NameA), T("Semicolon")>>

\* var a = L; var a = R; print a; var a = u; print L;
SrcVarFails ==
    <<T("Var"), Ident(NameA), T("Equal"), Lit(lhs), T("Semicolon"),
      T("Var"), Ident(NameA), T("Equal"), Lit(rhs), T("Semicolon"),
      T("Print"), Ident(NameA), T("Semicolon"),
      T("Var"), Ident(NameA), T("Equal"), Ident(NameU), T("Semicolon"),
      T("Print"), Lit(lhs), T("Semicolon")>>

\* var a = L; { var a = u; } print L;
SrcVarFailsInBlock ==
    <<T("Var"), Ident(NameA), T("Equal"), Lit(lhs), T("Semicolon"),
      T("LeftBrace"), T("Var"), Ident(NameA), T("Equal"), Ident(NameU), T("Semicolon"),
      T("RightBrace"), T("Print"), Lit(lhs), T("Semicolon")>>

\* var hit = u;
SrcVarFailsUnbound == <<T("Var"), Ident(NameHit), T("Equal"), Ident(NameU), T("Semicolon")>>

\* print ( L );
SrcGrouping ==
    <<T("Print"), T("LeftParen"), Lit(lhs), T("RightParen"), T("Semicolon")>>

\* print ( u );
SrcGroupingUndefined ==
    <<T("Print"), T("LeftParen"), Ident(NameU), T("RightParen"), T("Semicolon")>>

\* var b = L; print b; @
SrcDefineThenScanFailure ==
    <<T("Var"), Ident(NameB), T("Equal"), Lit(lhs), T("Semicolon"),
      T("Print"), Ident(NameB), T("Semicolon"),
      Token("ScannerError", <<"Unexpected character", "@">>)>>

\* var b = L; a = R; print b; print R
SrcDefineThenParseFailure ==
    <<T("Var"), Ident(NameB), T("Equal"), Lit(lhs), T("Semicolon"),
      Ident(NameA), T("Equal"), Lit(rhs), T("Semicolon"),
      T("Print"), Ident(NameB), T("Semicolon"), T("Print"), Lit(rhs)>>

\* the lines that fail to scan or to parse
UnparsedLines ==
    {SrcScanFailure, SrcPrintNoSemicolon, SrcDefineThenScanFailure,
     SrcDefineThenParseFailure}

PromptLines ==
    {SrcAdd(lhs, rhs), SrcNegate, SrcPrintA, SrcVarInBlock, SrcVarFails,
     SrcVarFailsInBlock, SrcVarFailsUnbound, SrcGrouping, SrcGroupingUndefined}
        \cup UnparsedLines

NextPrompt == \E tokens \in PromptLines : Run(tokens)

SpecPrompt == Init /\ [][NextPrompt]_vars

(***************************************************************************)
(* The claims.                                                             *)
(***************************************************************************)
Truthy(value) == is_true(as_boolean(value))

UndefinedVariable(r, name) ==
    /\ r.tag = "Err"
    /\ r.val.kind = "RuntimeError"
    /\ r.val.message = <<"undefined variable", name>>

\* C1: every visit_block that returns, at any nesting depth and whether or
\* not one of its statements failed, leaves as the current environment the
\* chain that was current on entry: the same links defining the same names,
\* the block's own link gone.  After a run that returns the chain is the
\* root link alone.
C1_BlockRestoresEnvironment ==
    /\ \A b \in blocks : b.exit = b.entry
    /\ Returned(result) => Len(environment) = 1

\* a block two levels down failed, and each of the three blocks returned
C1_Witness ==
    /\ code = SrcNestedFailure
    /\ \E b \in blocks : b.failed /\ Len(b.entry) = 3
    /\ \E b \in blocks : b.failed /\ Len(b.entry) = 1
    /\ result.tag = "Err"

\* C2: whenever run has returned, Ok or Err, the operand stack is empty (so
\* it is empty after the last complete expression of that run and before
\* the first of the next one).
C2_StackEmptyBetweenExpressions == Returned(result) => stack = <<>>

\* C3: running `var hit = false; L or (hit = true);` with L truthy, or
\* `var hit = false; L and (hit = true);` with L falsy, returns Ok and
\* changes the environment only by defining hit as False: the right operand
\* changed no scope.
C3_ShortCircuit ==
    [][(\/ code' = SrcOrHit /\ Truthy(lhs)
        \/ code' = SrcAndHit /\ ~Truthy(lhs))
       => /\ result'.tag = "Ok"
          /\ environment' = define(environment, NameHit, False)]_vars

C3_Witness ==
    /\ code = SrcAndHit
    /\ lhs = Number(0)
    /\ result.tag = "Ok"
    /\ environment[1][NameHit] = False

\* C4: `var r = L or R;` binds r to L when L is truthy and to R otherwise;
\* `var r = L and R;` binds r to L when L is falsy and to R otherwise: the
\* operand itself, not its boolean.
C4_LogicalYieldsOperand ==
    /\ code = SrcOr =>
          /\ result.tag = "Ok"
          /\ environment[1][NameR] = IF Truthy(lhs) THEN lhs ELSE rhs
    /\ code = SrcAnd =>
          /\ result.tag = "Ok"
          /\ environment[1][NameR] = IF Truthy(lhs) THEN rhs ELSE lhs

\* 0 or "x" is "x"
C4_Witness ==
    /\ code = SrcOr
    /\ lhs = Number(0)
    /\ rhs = String(<<"x">>)
    /\ environment[1][NameR] = String(<<"x">>)

\* C5: `var a = L; { var a = R; print a; } print a;` prints R, then L, and
\* leaves a bound to L; `{ var b = L; } print b;` fails with "undefined
\* variable b" and leaves b unbound.
C5_Shadowing ==
    /\ code = SrcShadow =>
          /\ result.tag = "Ok"
          /\ stdout = <<display(rhs), display(lhs)>>
          /\ environment[1][NameA] = lhs
    /\ code = SrcInnerOnly =>
          /\ UndefinedVariable(result, NameB)
          /\ stdout = <<>>
          /\ NameB \notin DOMAIN environment[1]

C5_Witness ==
    /\ code = SrcShadow
    /\ lhs = Number(2)
    /\ rhs = String(<<"x">>)
    /\ stdout = <<<<"x">>, <<"2">>>>
    /\ environment[1][NameA] = Number(2)

\* C6: `var a = L; var hit = L; { a = R; } print a;` prints R and leaves a
\* bound to R and hit to L; `var a = L; { var a = L; a = R; print a; }
\* print a;` prints R, then L, and leaves a bound to L.
C6_AssignNearestScope ==
    /\ code = SrcAssignOuter =>
          /\ result.tag = "Ok"
          /\ stdout = <<display(rhs)>>
          /\ environment[1][NameA] = rhs
          /\ environment[1][NameHit] = lhs
    /\ code = SrcAssignInner =>
          /\ result.tag = "Ok"
          /\ stdout = <<display(rhs), display(lhs)>>
          /\ environment[1][NameA] = lhs

C6_Witness ==
    /\ code = SrcAssignInner
    /\ lhs = Number(2)
    /\ rhs = String(<<"x">>)
    /\ stdout = <<<<"x">>, <<"2">>>>
    /\ environment[1][NameA] = Number(2)

\* C7: running `u = L;`, or `{ var b = L; u = R; }`, where no scope defines
\* u, returns the RuntimeError "undefined variable u" and leaves the
\* environment as it was: no binding created, none changed.
C7_AssignUndefinedFails ==
    [][code' \in {SrcAssignUndefined, SrcAssignUndefinedInBlock}
       => /\ UndefinedVariable(result', NameU)
          /\ environment' = environment]_vars

\* the assignment failed on an environment that held bindings
C7_Witness ==
    /\ code = SrcAssignUndefined
    /\ UndefinedVariable(result, NameU)
    /\ DOMAIN environment[1] = {NameA, NameHit}

\* C8: `print !L;` prints false when L is truthy and true otherwise;
\* `print -L;` prints the negation of L's numeric coercion, or fails with a
\* RuntimeError when L is a string that is no numeric literal.
C8_Unary ==
    /\ code = SrcNot =>
          /\ result.tag = "Ok"
          /\ stdout = <<display(IF Truthy(lhs) THEN False ELSE True)>>
    /\ code = SrcNegate =>
          IF as_number(lhs).tag = "Ok"
          THEN /\ result.tag = "Ok"
               /\ stdout = <<format_number(0 - as_number(lhs).val.n)>>
          ELSE /\ result.tag = "Err"
               /\ result.val.kind = "RuntimeError"

\* C9: `print L, R;` parses and prints R, the rightmost operand.
C9_CommaYieldsRightmost ==
    code = SrcComma =>
        /\ parse(code).res.tag = "Ok"
        /\ result.tag = "Ok"
        /\ stdout = <<display(rhs)>>

\* C10: whenever `var r = L != R;` returns Ok, r is the negation of what
\* equal(L, R) yields.
C10_NotEqualNegatesEqual ==
    (code = SrcNotEqual /\ result.tag = "Ok") =>
        environment[1][NameR] = IF equal(lhs, rhs).val = True THEN False ELSE True

\* C11: equality and the boolean interpretation are total: for the operands
\* L and R of every kind, `var r = L == R;` runs without error and defines r
\* as True or False, and the truthiness a logical operator takes of L is
\* True or False.
C11_EqualityAndTruthinessTotal ==
    /\ code = SrcEqual =>
            /\ result.tag = "Ok"
            /\ environment[1][NameR] \in {True, False}
    /\ code \in {SrcOr, SrcAnd} =>
            /\ result.tag = "Ok"
            /\ as_boolean(lhs) \in {True, False}

\* the node the parser builds at the tier of `operator`
TierNode(left, operator, right) ==
    IF operator \in {"Or", "And"} THEN Logical(left, T(operator), right)
    ELSE Binary(left, T(operator), right)

\* C12: a chain of binary operators of one precedence tier parses strictly
\* left-nested: `L op1 R op2 L` is the node of op2 over (the node of op1 over
\* L and R) and L, and prints as `(op2 (op1 L R) L)`; `1 - 2 - 3` prints as
\* `(- (- 1 2) 3)`.
C12_ChainsParseLeftNested ==
    /\ \A ops \in ChainOperators :
           code = SrcChain(ops) =>
               /\ result = Ok(<<ExpressionStatement(
                      TierNode(TierNode(Literal(lhs), ops[1], Literal(rhs)), ops[2],
                               Literal(lhs)))>>)
               /\ stdout = << <<"(">> \o token_display(T(ops[2])) \o <<" ", "(">>
                              \o token_display(T(ops[1])) \o <<" ">> \o display(lhs)
                              \o <<" ">> \o display(rhs) \o <<")", " ">> \o display(lhs)
                              \o <<")">> >>
    /\ code = SrcOneTwoThree =>
           /\ result.tag = "Ok"
           /\ stdout = << <<"(", "-", " ", "(", "-", " ", "1", " ", "2", ")", " ", "3", ")">> >>

C12_Witness ==
    /\ code = SrcOneTwoThree
    /\ result.tag = "Ok"
    /\ stdout = << <<"(", "-", " ", "(", "-", " ", "1", " ", "2", ")", " ", "3", ")">> >>

\* C13: the ternary operator is right-associative: `a ? b : hit ? r : u`
\* parses as Ternary(a, b, Ternary(hit, r, u)), and so it does with literals
\* for operands.
C13_TernaryRightAssociative ==
    /\ code = SrcTernaryChain =>
           /\ result = Ok(<<ExpressionStatement(
                  Ternary(T("Query"), Variable(NameA), Variable(NameB),
                          Ternary(T("Query"), Variable(NameHit), Variable(NameR),
                                  Variable(NameU))))>>)
           /\ stdout = << <<"(", "?", " ">> \o Printer_print(Variable(NameA)) \o <<" ">>
                          \o Printer_print(Variable(NameB)) \o <<" ", "(", "?", " ">>
                          \o Printer_print(Variable(NameHit)) \o <<" ">>
                          \o Printer_print(Variable(NameR)) \o <<" ">>
                          \o Printer_print(Variable(NameU)) \o <<")", ")">> >>
    /\ code = SrcTernaryValues =>
           result = Ok(<<ExpressionStatement(
               Ternary(T("Query"), Literal(lhs), Literal(rhs),
                       Ternary(T("Query"), Literal(rhs), Literal(lhs), Literal(lhs))))>>)

C13_Witness ==
    /\ code = SrcTernaryChain
    /\ result.tag = "Ok"
    /\ result.val[1].expression.third.kind = "Ternary"
    /\ result.val[1].expression.third.first = Variable(NameHit)

\* C14: `for (var i = 0; i < N; i = i + 1) print i;` prints 0, 1, ..., N-1 in
\* this order and nothing else, and the run returns Ok, for every N from 0 on.
C14_ForPrintsZeroToN ==
    \A n \in 0..MaxIter :
        code = SrcFor(n) =>
            /\ result = Unit
            /\ stdout = [k \in 1..n |-> format_number(k - 1)]

C14_Witness ==
    /\ code = SrcFor(3)
    /\ result = Unit
    /\ stdout = << <<"0">>, <<"1">>, <<"2">> >>

\* C15: a ternary evaluates its condition and then exactly one branch, the
\* second if the condition is truthy and the third otherwise: the assignment
\* of the unselected branch changes no binding, an undefined variable in the
\* unselected branch raises nothing, one in the selected branch or in the
\* condition is the error of the run, and a failed condition runs no branch.
C15_TernaryEvaluatesOneBranch ==
    /\ code = SrcTernaryAssign =>
           /\ result = Unit
           /\ environment[1][NameA] = IF Truthy(lhs) THEN Number(2) ELSE Number(0)
           /\ environment[1][NameB] = IF Truthy(lhs) THEN Number(0) ELSE Number(2)
    /\ code = SrcTernaryUndefinedThird =>
           /\ IF Truthy(lhs) THEN result = Unit ELSE UndefinedVariable(result, NameU)
           /\ environment[1][NameA] = IF Truthy(lhs) THEN Number(2) ELSE Number(0)
    /\ code = SrcTernaryUndefinedSecond =>
           /\ IF Truthy(lhs) THEN UndefinedVariable(result, NameU) ELSE result = Unit
           /\ environment[1][NameB] = IF Truthy(lhs) THEN Number(0) ELSE Number(2)
    /\ code = SrcTernaryUndefinedCondition =>
           /\ UndefinedVariable(result, NameU)
           /\ environment[1][NameA] = Number(0)
           /\ environment[1][NameB] = Number(0)

C15_Witness ==
    /\ code = SrcTernaryUndefinedThird
    /\ Truthy(lhs)
    /\ result = Unit
    /\ environment[1][NameA] = Number(2)

\* C16: when a statement fails at run time (print u, u undefined), run
\* returns that error, no statement after it is executed, neither in the
\* enclosing block or loop nor at top level, and what the statements before
\* it did is kept: the value of a is printed and nothing after it, and a
\* keeps the value L given before the failure.
C16_FailureStopsAndKeepsEffects ==
    code \in {SrcFailTopLevel, SrcFailInBlock, SrcFailInLoop} =>
        /\ UndefinedVariable(result, NameU)
        /\ stdout = <<display(lhs)>>
        /\ environment[1][NameA] = lhs

C16_Witness ==
    /\ code = SrcFailInLoop
    /\ lhs # rhs
    /\ UndefinedVariable(result, NameU)
    /\ stdout = <<display(lhs)>>
    /\ environment[1][NameA] = lhs

\* the value and the result of `var r = left + right;` as the claim states them
AddsAsStated(left, right) ==
    IF left.t = "String"
    THEN /\ result = Unit
         /\ environment[1][NameR] = String(left.s \o as_string(right).s)
    ELSE IF as_number(left).tag = "Ok" /\ as_number(right).tag = "Ok"
         THEN /\ result = Unit
              /\ environment[1][NameR] = Number(as_number(left).val.n + as_number(right).val.n)
         ELSE /\ result.tag = "Err"
              /\ result.val.kind = "RuntimeError"

\* C17: add is asymmetric in its left operand: a String on the left gives the
\* concatenation of it with as_string of the right operand and never fails
\* ("3" + 1 is "31"); otherwise both operands are coerced with as_number and
\* summed (1 + "3" is 4), and the run fails with a RuntimeError when a
\* coercion fails (1 + "a").
C17_AddAsymmetric ==
    /\ code = SrcAdd(lhs, rhs) => AddsAsStated(lhs, rhs)
    /\ \A operands \in AddExamples :
           code = SrcAdd(operands[1], operands[2]) => AddsAsStated(operands[1], operands[2])
    /\ code = SrcAdd(String(<<"3">>), Number(1)) =>
           environment[1][NameR] = String(<<"3", "1">>)
    /\ code = SrcAdd(Number(1), String(<<"3">>)) => environment[1][NameR] = Number(4)
    /\ code = SrcAdd(Number(1), String(<<"a">>)) => result.tag = "Err"

C17_Witness ==
    /\ code = SrcAdd(Number(1), String(<<"3">>))
    /\ result = Unit
    /\ environment[1][NameR] = Number(4)

\* C18: when the expression parsed on the left of "=" is not a bare
\* Variable (a literal, a Grouping, a Unary, a Binary, a Logical, the last
\* operand of a Ternary), parse fails with the ParserError "Invalid
\* assignment target", whatever token follows the "=", the end of the input
\* included, and returns no statement, so no Assign node.
C18_InvalidAssignmentTarget ==
    \A target \in InvalidTargets, rest \in Followers :
        code = SrcInvalidTarget(target, rest) =>
            /\ result.tag = "Err"
            /\ result.val.kind = "ParserError"
            /\ result.val.message = <<"Invalid assignment target">>
            /\ stdout = <<>>

C18_Witness ==
    /\ code = SrcInvalidTarget(<<T("LeftParen"), Ident(NameA), T("RightParen")>>,
                               <<T("Semicolon")>>)
    /\ result.tag = "Err"
    /\ result.val.message = <<"Invalid assignment target">>

\* C19: the parser is single-shot: the first failure ends parse, which
\* returns that one error and no statements, whatever was parsed before it
\* and whatever is wrong after it; a consume that fails returns a ParserError
\* with the token it met and the message of the call, and with no token when
\* the input ended where the token was required.
C19_ParserSingleShot ==
    /\ code \in FailingSources => result.tag = "Err" /\ stdout = <<>>
    /\ code = SrcPrintNoSemicolon =>
           result = Err(ParserError(<<>>, <<"Expect \";\" after value">>))
    /\ code = SrcPrintTwoValues =>
           result = Err(ParserError(<<Lit(rhs)>>, <<"Expect \";\" after value">>))
    /\ code = SrcFirstOfTwoErrors =>
           result = Err(ParserError(<<T("Equal")>>, <<"Expect variable name">>))
    /\ code = SrcUnclosedGroup =>
           result = Err(ParserError(<<T("Semicolon")>>, <<"Expect \")\" after expression">>))
    /\ code = SrcUnclosedGroupAtEnd =>
           result = Err(ParserError(<<>>, <<"Expect \")\" after expression">>))
    /\ code = SrcIfNoParen =>
           result = Err(ParserError(<<Lit(lhs)>>, <<"Expect \"(' after \"if\"">>))
    /\ code = SrcTernaryNoColon =>
           result = Err(ParserError(<<T("Semicolon")>>,
                                    <<"Expected \":\" after first expression">>))
    /\ code = SrcStatementsThenError =>
           result = Err(ParserError(<<>>, <<"Expect \"(' after \"while\"">>))

C19_Witness ==
    /\ code = SrcFirstOfTwoErrors
    /\ result = Err(ParserError(<<T("Equal")>>, <<"Expect variable name">>))
    /\ stdout = <<>>

\* C20: every node the parser builds carries an operator its evaluator
\* handles: no run of a program the parser accepts ends in an
\* `unreachable!()` arm of the Interpreter.
C20_NoUnreachableArm ==
    parse(code).res.tag = "Ok" => result # Abort("unreachable")

\* the run of the line returned this kind of error, which run_prompt reports
\* before it reads the next line
Reported(kind) == result.tag = "Err" /\ result.val.kind = kind

\* C21: in interactive mode every line whose run fails ends with run
\* returning an error that is reported, and the loop goes on to the next
\* line: a line that fails to scan, a line that fails to parse, and a line
\* that fails at run time on the numeric coercion of an unparsable string,
\* in an addition (L + R, L not a String) or in a negation (-L).
C21_FailingLineIsReported ==
    /\ code = SrcScanFailure => Reported("ScannerError")
    /\ code = SrcPrintNoSemicolon => Reported("ParserError")
    /\ (/\ code = SrcAdd(lhs, rhs)
        /\ lhs.t # "String"
        /\ "Err" \in {as_number(lhs).tag, as_number(rhs).tag}) => Reported("RuntimeError")
    /\ (code = SrcNegate /\ as_number(lhs).tag = "Err") => Reported("RuntimeError")

\* C22: `var name = init;` evaluates the initializer, Null when it is
\* omitted, and inserts or overwrites the binding of name in the current
\* scope link only: in `var a = L; { var a = R; print a; var a; print a; }
\* print a;` the block prints R, then Null, the outer a stays L; a second
\* `var a = R;` in the same link overwrites; when the initializer fails
\* (`var a = u;`, `var hit = u;`) the run returns the error and no binding
\* is created or changed, in the current link or in an enclosing one.
C22_VarDefinesInCurrentLink ==
    /\ code = SrcVarInBlock =>
           /\ result = Unit
           /\ stdout = <<display(rhs), display(Null), display(lhs)>>
           /\ Len(environment) = 1
           /\ environment[1][NameA] = lhs
    /\ code = SrcVarFails =>
           /\ UndefinedVariable(result, NameU)
           /\ stdout = <<display(rhs)>>
           /\ environment[1][NameA] = rhs
    /\ code = SrcVarFailsInBlock =>
           /\ UndefinedVariable(result, NameU)
           /\ stdout = <<>>
           /\ environment[1][NameA] = lhs
    /\ code = SrcVarFailsUnbound =>
           /\ UndefinedVariable(result, NameU)
           /\ NameHit \notin DOMAIN environment[1]

C22_Witness ==
    /\ code = SrcVarInBlock
    /\ lhs = Number(2)
    /\ rhs = String(<<"x">>)
    /\ result = Unit
    /\ stdout = <<display(rhs), display(Null), display(lhs)>>
    /\ environment[1][NameA] = lhs

\* C23: a While evaluates its condition afresh before every iteration and
\* executes its body once for each truthy evaluation.  With the condition
\* `i = i - 1` from i = n the body prints n-1, ..., 1, the loop ends at
\* i = 0 without error and the print after it prints 0; a condition falsy at
\* entry gives no execution of the
\* body; the first failure of the condition (at entry, or at a later
\* evaluation) or of the body ends the loop and the run with that error, and
\* nothing further is executed.
C23_WhileSemantics ==
    /\ \A n \in 1..MaxIter :
           code = SrcWhileCountdown(n) =>
               /\ result = Unit
               /\ stdout = [k \in 1..n |-> format_number(n - k)]
               /\ environment[1][NameI] = Number(0)
    /\ code = SrcWhileOnce =>
           /\ result = Unit
           /\ stdout = IF Truthy(lhs) THEN <<display(lhs), display(rhs)>>
                       ELSE <<display(rhs)>>
           /\ environment[1][NameA] = IF Truthy(lhs) THEN Null ELSE lhs
    /\ code = SrcWhileUndefinedCondition =>
           /\ UndefinedVariable(result, NameU)
           /\ stdout = <<>>
    /\ code = SrcWhileFailingBody =>
           /\ UndefinedVariable(result, NameU)
           /\ stdout = << <<"1">> >>
           /\ environment[1][NameI] = Number(1)
    /\ code = SrcWhileConditionFailsLater =>
           /\ result.tag = "Err"
           /\ result.val.kind = "RuntimeError"
           /\ stdout = << <<"0">> >>
           /\ environment[1][NameA] = String(<<"x">>)

C23_Witness ==
    /\ code = SrcWhileCountdown(3)
    /\ result = Unit
    /\ stdout = << <<"2">>, <<"1">>, <<"0">> >>
    /\ environment[1][NameI] = Number(0)

\* the one expression statement of a line that parsed
Parsed(e) == result = Ok(<<ExpressionStatement(e)>>)

\* C24: operators of different tiers nest by precedence, from loosest to
\* tightest comma, assignment, or, and, equality, comparison, term, factor,
\* ternary, unary: for binary operators lo and hi with hi on a tighter tier
\* `L lo R hi a` parses as (lo L (hi R a)) and `L hi R lo a` as
\* (lo (hi L R) a); `1 + 2 * 3` prints as (+ 1 (* 2 3)); `a or b and hit` is
\* (or a (and b hit)); an assignment takes an `or` as its value and is an
\* operand of a comma; a ternary is an operand of a factor, a unary the
\* condition of a ternary and an operand of a factor.
C24_TiersNestByPrecedence ==
    /\ \A ops \in TierPairs :
           /\ code = SrcLooseTight(ops) =>
                  Parsed(TierNode(Literal(lhs), ops[1],
                                  TierNode(Literal(rhs), ops[2], Variable(NameA))))
           /\ code = SrcTightLoose(ops) =>
                  Parsed(TierNode(TierNode(Literal(lhs), ops[2], Literal(rhs)), ops[1],
                                  Variable(NameA)))
    /\ code = SrcOnePlusTwoTimesThree =>
           /\ result.tag = "Ok"
           /\ stdout = << <<"(", "+", " ", "1", " ", "(", "*", " ", "2", " ", "3", ")", ")">> >>
    /\ code = SrcOrAnd =>
           Parsed(Logical(Variable(NameA), T("Or"),
                          Logical(Variable(NameB), T("And"), Variable(NameHit))))
    /\ code = SrcAssignOr =>
           Parsed(Assign(NameA, Logical(Literal(lhs), T("Or"), Literal(rhs))))
    /\ code = SrcCommaAssign =>
           Parsed(Binary(Assign(NameA, Literal(lhs)), T("Comma"),
                         Assign(NameB, Literal(rhs))))
    /\ code = SrcFactorTernary =>
           Parsed(Binary(Literal(lhs), T("Star"),
                         Ternary(T("Query"), Literal(rhs), Variable(NameA),
                                 Variable(NameB))))
    /\ code = SrcUnaryTernary =>
           Parsed(Ternary(T("Query"), Unary(T("Minus"), Literal(lhs)), Variable(NameA),
                          Variable(NameB)))
    /\ code = SrcUnaryFactor =>
           Parsed(Binary(Unary(T("Bang"), Literal(lhs)), T("Star"), Literal(rhs)))

C24_Witness ==
    /\ code = SrcOnePlusTwoTimesThree
    /\ result.tag = "Ok"
    /\ result.val[1].expression.operator = T("Plus")
    /\ result.val[1].expression.right.operator = T("Star")

\* the Interpreter of the prompt, between two lines
Self ==
    [environment |-> environment, stack |-> stack, error |-> error, stdout |-> <<>>,
     blocks |-> {}]

\* the expressions a statement holds
ExpressionsOf(node) ==
    CASE node.kind \in {"ExpressionStatement", "Print"} -> {node.expression}
      [] node.kind = "Var" -> {node.right}
      [] node.kind \in {"If", "While"} -> {node.condition}
      [] OTHER -> {}

\* C25: after every return of evaluate_statement and of evaluate_expression,
\* Ok or Err, the error slot is empty: it is empty after every line whose
\* run returned, and from there evaluate_statement on each statement of each
\* line, and evaluate_expression on each expression these statements hold,
\* return with the slot empty; so a failing line leaves no error for a later
\* one.
C25_ErrorSlotEmptyAfterReturn ==
    Returned(result) =>
        /\ error = NoError
        /\ \A tokens \in PromptLines :
               \A parsed \in {parse(tokens).res} :
                   parsed.tag = "Ok" =>
                       \A i \in 1..Len(parsed.val) :
                           /\ \A r \in {evaluate_statement(parsed.val[i], Self, 0)} :
                                  Returned(r.res) => r.st.error = NoError
                           /\ \A e \in ExpressionsOf(parsed.val[i]) :
                                  \A r \in {evaluate_expression(e, Self, 0)} :
                                      Returned(r.res) => r.st.error = NoError

C25_Witness ==
    /\ code = SrcVarFailsInBlock
    /\ UndefinedVariable(result, NameU)
    /\ error = NoError
    /\ runs = 2

\* C26: a Grouping `( e )` evaluates e once and yields its value, or fails
\* with the error of e: `print ( L );` prints L and returns Ok, and
\* `print ( u );`, u undefined, returns the error "undefined variable u".
C26_GroupingYieldsInner ==
    /\ code = SrcGrouping => result = Unit /\ stdout = <<display(lhs)>>
    /\ code = SrcGroupingUndefined => UndefinedVariable(result, NameU) /\ stdout = <<>>

\* C27: the run of a program with no `while` and no `for` terminates with a
\* value or an error: every line of the prompt that holds no loop, once run,
\* has returned Ok or Err.
C27_LoopFreeProgramsTerminate ==
    \A tokens \in PromptLines :
        (/\ code = tokens
         /\ \A i \in 1..Len(tokens) : tokens[i].type \notin {"While", "For"})
            => Returned(result)

\* C28: run parses the whole source before it executes anything: the run of
\* a line that fails to scan or to parse, at its first token or after
\* several well-formed statements, returns the error, leaves the environment
\* as it was and prints nothing.
C28_NothingRunsBeforeParseEnds ==
    [][(runs' = runs + 1 /\ code' \in UnparsedLines) =>
           /\ result'.tag = "Err"
           /\ result'.val.kind \in {"ScannerError", "ParserError"}
           /\ environment' = environment
           /\ stdout' = <<>>]_vars

C28_Witness ==
    /\ code = SrcDefineThenParseFailure
    /\ result = Err(ParserError(<<>>, <<"Expect \";\" after value">>))
    /\ stdout = <<>>
    /\ NameB \notin DOMAIN environment[1]

\* the block a `for` with an initializer and an increment is parsed into
ForBlock(name, bound) ==
    Block(<<Var(name, Literal(Number(0))),
            While(Binary(Variable(name), T("Less"), Literal(Number(bound))),
                  Block(<<PrintStatement(Variable(name)),
                          ExpressionStatement(
                              Assign(name, Binary(Variable(name), T("Plus"),
                                                  Literal(Number(1)))))>>))>>)

\* C29: a `for` with an initializer is parsed into a Block of the initializer
\* and the While, whose body, an increment being present, is a Block of the
\* body and then the increment: the variable of the initializer does not
\* overwrite a variable a of the enclosing scope (the print after the loop
\* prints L) and is undefined after the loop (print b fails), and the body
\* and the increment run in a block entered with the link of the initializer
\* on top of the enclosing scope.
C29_ForDesugarsIntoBlocks ==
    /\ \A n \in 0..MaxIter :
           code = SrcFor(n) => parse(code).res = Ok(<<ForBlock(NameI, n)>>)
    /\ code = SrcForShadows =>
           /\ parse(code).res =
                  Ok(<<Var(NameA, Literal(lhs)), ForBlock(NameA, 2),
                       PrintStatement(Variable(NameA))>>)
           /\ result = Unit
           /\ stdout = << <<"0">>, <<"1">>, display(lhs) >>
           /\ environment[1][NameA] = lhs
           /\ [entry |-> <<{NameA}, DOMAIN environment[1]>>,
               exit |-> <<{NameA}, DOMAIN environment[1]>>, failed |-> FALSE] \in blocks
    /\ code = SrcForThenUndefined =>
           /\ UndefinedVariable(result, NameB)
           /\ stdout = << <<"0">>, <<"1">> >>
           /\ NameB \notin DOMAIN environment[1]
           /\ [entry |-> <<{NameB}, DOMAIN environment[1]>>,
               exit |-> <<{NameB}, DOMAIN environment[1]>>, failed |-> FALSE] \in blocks

C29_Witness ==
    /\ code = SrcForShadows
    /\ lhs = String(<<"x">>)
    /\ stdout = << <<"0">>, <<"1">>, <<"x">> >>
    /\ environment[1][NameA] = lhs

\* the tokens of an expression of literals and binary operators
RECURSIVE TokensOfExpression(_)
TokensOfExpression(node) ==
    IF node.kind = "Literal" THEN <<Lit(node.value)>>
    ELSE TokensOfExpression(node.left) \o <<node.operator>>
             \o TokensOfExpression(node.right)

\* the tokens of a sequence of expression statements and blocks
RECURSIVE TokensOfStatements(_)
TokensOfStatements(nodes) ==
    IF nodes = <<>> THEN <<>>
    ELSE (IF Head(nodes).kind = "Block"
          THEN <<T("LeftBrace")>> \o TokensOfStatements(Head(nodes).statements)
                   \o <<T("RightBrace")>>
          ELSE TokensOfExpression(Head(nodes).expression) \o <<T("Semicolon")>>)
             \o TokensOfStatements(Tail(nodes))

\* the tokens a cursor has left: the current one and those of the iterator
Left(ps) == Len(ps.current) + Len(ps.inner)

\* C30: parse terminates on every finite token stream: on every stream of
\* up to MaxLen tokens it returns Ok or an error; a declaration that parses
\* has consumed at least one token; a stream that ends inside a block (a "{"
\* and then well-formed statements) gives a ParserError with no token; and
\* when parse returns Ok the whole stream is consumed and the statements are
\* those of the stream, in its order.
C30_ParseTerminates ==
    runs = 1 =>
        /\ Returned(result)
        /\ \A first \in {Tokens_next(Tokens_new(code)).ps} :
               first.current # <<>> =>
                   \A decl \in {declaration(first)} :
                       decl.res.tag = "Ok" => Left(decl.ps) < Left(first)
        /\ (/\ code # <<>>
            /\ Head(code) = T("LeftBrace")
            /\ parse(Tail(code)).res.tag = "Ok") =>
                 /\ result.tag = "Err"
                 /\ result.val.kind = "ParserError"
                 /\ result.val.token = <<>>
        /\ result.tag = "Ok" =>
               /\ parse(code).ps = [inner |-> <<>>, current |-> <<>>]
               /\ TokensOfStatements(result.val) = code

C30_Witness ==
    /\ code = <<T("LeftBrace"), Lit(rhs), T("Semicolon"), T("LeftBrace"), Lit(lhs),
                T("Semicolon"), T("RightBrace")>>
    /\ result = Err(ParserError(<<>>, <<"Expect token">>))

====
